---- MODULE Spec2Model ----
\* A model of the dbuf-storage Collection / Subcollection engine
\* (src/dbuf-storage/src/lib.rs): one sled tree holding document records,
\* content-addressed dependency blobs and reverse-index marker keys.
EXTENDS Integers, Sequences, FiniteSets, TLC

VARIABLES
    tree,   \* the collection's sled tree: key -> stored bytes
    subs,   \* the Subcollection handles currently held by the caller
    docs,   \* history: id -> the document as last accepted by insert / update
    last,   \* the call that has just returned, with its arguments and result
    metadata,  \* the Collection handle's CollectionMetadata (its two schemas)
    th,     \* the threads calling into the collection, each with its locals
    db      \* the Database: its named trees, and what the server answered last

vars == <<tree, subs, docs, last, metadata, th, db>>

\* ---------------------------------------------------------------- bounds
MaxIds == 2      \* distinct tokens generate_id can draw
MaxBodies == 2   \* distinct body values callers submit
MaxDeps == 2     \* distinct dependency values callers submit
MaxSubs == 1     \* Subcollection handles held at the same time
MaxCalls == 2    \* calls one thread makes when threads overlap
MaxNames == 1    \* distinct names callers give to collections

\* ------------------------------------------------------------ characters
\* Keys are strings; a key is modelled as the sequence of its characters.
Digits == <<"0", "1", "2", "3", "4", "5", "6", "7", "8", "9">>

Char(n) == Digits[n + 1]

\* the characters keys are made of, in byte order
Alphabet == <<"*">> \o Digits \o <<"_", "f", "m">>

CharOrd(c) == CHOOSE i \in 1..Len(Alphabet) : Alphabet[i] = c

METADATA_KEY == <<"*", "m", "*">>

\* ------------------------------------------------------------ JSON values
\* serde_json::Value: numbers, strings and objects (a map from field names).
JNum(n) == [t |-> "num", n |-> n]

JStr(s) == [t |-> "str", s |-> s]

JObj(m) == [t |-> "obj", m |-> m]

is_object(v) == v.t = "obj"

contains_key(v, k) == k \in DOMAIN v.m

\* A JSON text is a value together with the way it is written: "compact" is
\* the writing serde_json::to_string produces (no whitespace, keys in map
\* order), "spaced" is any other writing of the same value.  The empty byte
\* string (a marker's value) and malformed input are texts without a value.
Layouts == {"compact", "spaced"}

EmptyBytes == [lay |-> "empty"]

to_string(v) == [val |-> v, lay |-> "compact"]

parses(text) == "val" \in DOMAIN text

from_str(text) == text.val

\* ------------------------------------------------------------- the inputs
BodyValues == {JObj([a |-> JNum(i)]) : i \in 1..MaxBodies}

DepValueSeq == [i \in 1..MaxDeps |-> JObj([k |-> JNum(i)])]

DepValues == {DepValueSeq[i] : i \in 1..MaxDeps}

DepTexts == [val : DepValues, lay : Layouts]

BodyTexts == [val : BodyValues, lay : Layouts]

Document(b, d) == JObj([body |-> b, dependencies |-> d])

DocTexts == {[val |-> Document(b, d), lay |-> l] : b \in BodyValues, d \in DepValues, l \in Layouts}

\* a text that is no JSON at all
Malformed == [lay |-> "malformed"]

\* values that are no `{body, dependencies}` document: a non-object, an
\* object with one of the two keys missing, an object with a third key
NonDocValues ==
    LET b == JObj([a |-> JNum(1)])
        d == DepValueSeq[1]
    IN {JNum(1), JObj([body |-> b]), JObj([dependencies |-> d]),
        JObj([body |-> b, dependencies |-> d, extra |-> JNum(1)])}

NonDocTexts == {Malformed} \cup {[val |-> v, lay |-> "compact"] : v \in NonDocValues}

\* a body and a dependency value whose field is a string, not a number
StrBody == JObj([a |-> JStr("x")])

StrDeps == JObj([k |-> JStr("x")])

StrDocTexts == {[val |-> Document(b, d), lay |-> "compact"] : b \in BodyValues \cup {StrBody}, d \in DepValues \cup {StrDeps}}

\* a dependency value with two keys, and the documents that hold it in each
\* writing: canonical, with whitespace, with the keys in the other order
TwoKeyDeps == JObj([k |-> JNum(1), l |-> JNum(1)])

DocWritings == DocTexts \cup {[val |-> Document(b, TwoKeyDeps), lay |-> w] : b \in BodyValues, w \in {"compact", "spaced", "reordered"}}

\* a dependency value that looks like a stored record whose `deps` pointer
\* is the metadata key
TrapDeps == JObj([deps |-> JStr(METADATA_KEY), body |-> JNum(1)])

\* what callers that are not careful submit: documents of every shape and
\* type, bodies of every type, dependency texts that may not parse
AnyDocTexts == StrDocTexts \cup NonDocTexts

AnyBodyTexts == {to_string(b) : b \in BodyValues \cup {StrBody}} \cup {Malformed}

AnyDepTexts == {to_string(d) : d \in DepValues} \cup {Malformed}

\* the tokens generate_id can draw (alphanumeric, all of one length)
IdPool == {<<Char(i)>> : i \in 1..MaxIds}

\* ---------------------------------------------------------------- hashing
\* helper::get_json_hash: a digest of the bytes of the text it is given, as
\* a hexadecimal string of fixed width; different texts, different digests.
get_json_hash(text) ==
    LET hashed == DepValueSeq \o <<TwoKeyDeps, StrDeps, TrapDeps>>
        i == CHOOSE j \in 1..Len(hashed) : hashed[j] = text.val
    IN <<"f", Char(i), Char(IF text.lay = "compact" THEN 0 ELSE 1)>>

\* format!("{}_{}", deps_hash, id)
marker_key(deps_hash, id) == deps_hash \o <<"_">> \o id

\* ------------------------------------------------------------- sled::Tree
tree_contains_key(t, k) == k \in DOMAIN t

tree_insert(t, k, v) == [x \in DOMAIN t \cup {k} |-> IF x = k THEN v ELSE t[x]]

tree_remove(t, k) == [x \in DOMAIN t \ {k} |-> t[x]]

starts_with(k, prefix) ==
    /\ Len(k) >= Len(prefix)
    /\ SubSeq(k, 1, Len(prefix)) = prefix

\* byte-wise lexicographic order of keys
RECURSIVE key_less(_, _)
key_less(a, b) ==
    IF a = <<>> THEN b # <<>>
    ELSE IF b = <<>> THEN FALSE
    ELSE IF Head(a) = Head(b) THEN key_less(Tail(a), Tail(b))
    ELSE CharOrd(Head(a)) < CharOrd(Head(b))

RECURSIVE in_key_order(_)
in_key_order(ks) ==
    IF ks = {} THEN <<>>
    ELSE LET first == CHOOSE k \in ks : \A o \in ks \ {k} : key_less(k, o)
         IN <<first>> \o in_key_order(ks \ {first})

\* tree.scan_prefix(prefix): the keys with that prefix, in key order
scan_prefix(t, prefix) == in_key_order({k \in DOMAIN t : starts_with(k, prefix)})

\* ------------------------------------------------------------ results
Ok == "Ok"
NotFound == "NotFound"
DeserializationError == "DeserializationError"
DatabaseError == "DatabaseError"
SchemaError == "SchemaError"
SchemaValidationError == "SchemaValidationError"
AlreadyExists == "AlreadyExists"
SerializationError == "SerializationError"
SchemaCompilationError == "SchemaCompilationError"

NoId == <<>>

\* ---------------------------------------------------------- sled failures
\* What sled answers to the writes of one call: every write succeeds, the
\* transaction (or the single insert) fails, or the flush after it fails.
IoOutcomes == {"ok", "tx_error", "flush_error"}

\* ---------------------------------------------------------------- schemas
\* Option<Schema>
None == [some |-> FALSE]

Some(x) == [some |-> TRUE, v |-> x]

\* struct Schema: the schema text and whether its validator is compiled
Schema(schema_json, compiled) == [schema_json |-> schema_json, compiled |-> compiled]

\* the JSON Schema type name of a value
type_of(v) == IF v.t = "num" THEN "integer" ELSE IF v.t = "str" THEN "string" ELSE "object"

\* JSONSchema::validate for the keywords `type` and `properties`
RECURSIVE is_valid(_, _)
is_valid(schema_value, data) ==
    /\ contains_key(schema_value, "type") => type_of(data) = schema_value.m["type"].s
    /\ (contains_key(schema_value, "properties") /\ is_object(data))
       => \A p \in DOMAIN schema_value.m["properties"].m :
             contains_key(data, p) => is_valid(schema_value.m["properties"].m[p], data.m[p])

\* Schema::validate_data
validate_data(schema, data) ==
    IF ~schema.compiled THEN SchemaError
    ELSE IF ~is_valid(from_str(schema.schema_json), data) THEN SchemaValidationError
    ELSE Ok

\* a schema asking for an object whose field `field` is an integer
integer_field_schema(field) ==
    JObj([type |-> JStr("object"),
          properties |-> JObj([f \in {field} |-> JObj([type |-> JStr("integer")])])])

\* ------------------------------------------------------------ Collection
MAX_ATTEMPTS == 10

\* Collection::generate_unique_id: the outcomes of the loop from the given
\* attempt on.  Each attempt draws any token of IdPool; a token that is no
\* key of the tree is returned, a colliding one leads to the next attempt,
\* and after MAX_ATTEMPTS collisions the call fails.
RECURSIVE generate_unique_id_from(_, _)
generate_unique_id_from(t, attempt) ==
    IF attempt = MAX_ATTEMPTS
    THEN {[res |-> DatabaseError, id |-> NoId]}
    ELSE {[res |-> Ok, id |-> id] : id \in {i \in IdPool : ~tree_contains_key(t, i)}}
         \cup (IF \E i \in IdPool : tree_contains_key(t, i)
               THEN generate_unique_id_from(t, attempt + 1)
               ELSE {})

generate_unique_id(t) == generate_unique_id_from(t, 0)

Fail(t, kind) == [res |-> kind, tree |-> t, id |-> NoId]

\* validate_body that never consults the schema
validate_body_skipped(body) == Ok

\* Collection::validate_body
validate_body(body) ==
    IF metadata.body_schema.some THEN validate_data(metadata.body_schema.v, body) ELSE Ok

\* Collection::validate_dependencies
validate_dependencies(dependencies) ==
    IF metadata.dependencies_schema.some
    THEN validate_data(metadata.dependencies_schema.v, dependencies)
    ELSE Ok

\* `self.tree.transaction(..)?` followed by `self.tree.flush()?`: a failed
\* transaction leaves the tree as it was, a failed flush comes after the
\* transaction has applied its writes
transaction_then_flush(t, written, id, io) ==
    IF io = "tx_error" THEN Fail(t, DatabaseError)
    ELSE IF io = "flush_error" THEN [res |-> DatabaseError, tree |-> written, id |-> NoId]
    ELSE [res |-> Ok, tree |-> written, id |-> id]

\* is_document without the test that the object has exactly two keys
is_document_any_size(value) ==
    /\ is_object(value)
    /\ contains_key(value, "body")
    /\ contains_key(value, "dependencies")

\* the `{body, dependencies}` shape test of insert_json and update_json
is_document(value) ==
    /\ is_object(value)
    /\ Cardinality(DOMAIN value.m) = 2
    /\ contains_key(value, "body")
    /\ contains_key(value, "dependencies")

\* insert_tx with the blob written only when one is already there
insert_tx_blob_test_inverted(t, id, storage_json, deps_exists, deps_hash, dependencies_json) ==
    LET t1 == tree_insert(t, id, storage_json)
        t2 == IF deps_exists THEN tree_insert(t1, deps_hash, dependencies_json) ELSE t1
    IN tree_insert(t2, marker_key(deps_hash, id), EmptyBytes)

\* insert_tx that writes the record and the blob, and no marker
insert_tx_writes_no_marker(t, id, storage_json, deps_exists, deps_hash, dependencies_json) ==
    LET t1 == tree_insert(t, id, storage_json)
    IN IF ~deps_exists THEN tree_insert(t1, deps_hash, dependencies_json) ELSE t1

\* insert_tx that writes the record and the marker, and never the blob
insert_tx_without_blob(t, id, storage_json, deps_exists, deps_hash, dependencies_json) ==
    tree_insert(tree_insert(t, id, storage_json), marker_key(deps_hash, id), EmptyBytes)

\* what the insert transaction writes
insert_tx(t, id, storage_json, deps_exists, deps_hash, dependencies_json) ==
    LET t1 == tree_insert(t, id, storage_json)
        t2 == IF ~deps_exists THEN tree_insert(t1, deps_hash, dependencies_json) ELSE t1
    IN tree_insert(t2, marker_key(deps_hash, id), EmptyBytes)

\* insert_json that hashes the dependencies as the caller wrote them
Collection_insert_json_hashes_input(t, json, g, io) ==
    IF ~parses(json) THEN Fail(t, DeserializationError)
    ELSE LET value == from_str(json) IN
    IF ~is_document(value) THEN Fail(t, DeserializationError)
    ELSE LET body == value.m["body"]
             dependencies == value.m["dependencies"]
             dependencies_json == [val |-> dependencies, lay |-> json.lay]
             deps_hash == get_json_hash(dependencies_json)
         IN
    IF validate_body(body) # Ok THEN Fail(t, validate_body(body))
    ELSE IF validate_dependencies(dependencies) # Ok
    THEN Fail(t, validate_dependencies(dependencies))
    ELSE IF g.res # Ok THEN Fail(t, g.res)
    ELSE LET id == g.id
             storage_json == to_string(JObj([deps |-> JStr(deps_hash), body |-> body]))
             deps_exists == tree_contains_key(t, deps_hash)
         IN transaction_then_flush(t,
                insert_tx(t, id, storage_json, deps_exists, deps_hash, dependencies_json),
                id, io)

\* Collection::insert_json; g is the outcome of generate_unique_id and io
\* what sled answers to the transaction and the flush.
Collection_insert_json(t, json, g, io) ==
    IF ~parses(json) THEN Fail(t, DeserializationError)
    ELSE LET value == from_str(json) IN
    IF ~is_document(value) THEN Fail(t, DeserializationError)
    ELSE LET body == value.m["body"]
             dependencies == value.m["dependencies"]
             dependencies_json == to_string(dependencies)
             deps_hash == get_json_hash(dependencies_json)
         IN
    IF validate_body(body) # Ok THEN Fail(t, validate_body(body))
    ELSE IF validate_dependencies(dependencies) # Ok
    THEN Fail(t, validate_dependencies(dependencies))
    ELSE IF g.res # Ok THEN Fail(t, g.res)
    ELSE LET id == g.id
             storage_json == to_string(JObj([deps |-> JStr(deps_hash), body |-> body]))
             deps_exists == tree_contains_key(t, deps_hash)
         IN transaction_then_flush(t,
                insert_tx(t, id, storage_json, deps_exists, deps_hash, dependencies_json),
                id, io)

\* the stored-record shape test of get_json and update_json
is_storage_value(v) ==
    /\ is_object(v)
    /\ contains_key(v, "deps")
    /\ contains_key(v, "body")

\* get_json that reports a missing blob as a missing document
get_json_missing_blob_is_not_found(t, id) ==
    IF ~tree_contains_key(t, id) THEN [res |-> NotFound]
    ELSE LET storage_value == from_str(t[id])
             deps_hash == storage_value.m["deps"].s
         IN IF ~tree_contains_key(t, deps_hash) THEN [res |-> NotFound]
            ELSE [res |-> Ok, out |-> to_string(Document(storage_value.m["body"], from_str(t[deps_hash])))]

\* Collection::get_json: the result and the text returned
Collection_get_json(t, id) ==
    IF ~tree_contains_key(t, id) THEN [res |-> NotFound]
    ELSE IF ~parses(t[id]) THEN [res |-> DeserializationError]
    ELSE LET storage_value == from_str(t[id]) IN
    IF ~is_storage_value(storage_value) THEN [res |-> DeserializationError]
    ELSE IF storage_value.m["deps"].t # "str" THEN [res |-> DeserializationError]
    ELSE LET body == storage_value.m["body"]
             deps_hash == storage_value.m["deps"].s
         IN
    IF ~tree_contains_key(t, deps_hash) THEN [res |-> DeserializationError]
    ELSE IF ~parses(t[deps_hash]) THEN [res |-> DeserializationError]
    ELSE [res |-> Ok, out |-> to_string(Document(body, from_str(t[deps_hash])))]

\* update_tx that also removes the blob the document pointed to before
update_tx_removes_old_blob(t, id, deps_changed, old_deps_hash, new_deps_exists, new_deps_hash, new_dependencies_json, updated_storage_json) ==
    LET t1 == IF deps_changed
              THEN tree_remove(tree_remove(t, marker_key(old_deps_hash, id)), old_deps_hash)
              ELSE t
        t2 == IF deps_changed /\ ~new_deps_exists
              THEN tree_insert(t1, new_deps_hash, new_dependencies_json)
              ELSE t1
        t3 == IF deps_changed
              THEN tree_insert(t2, marker_key(new_deps_hash, id), EmptyBytes)
              ELSE t2
    IN tree_insert(t3, id, updated_storage_json)

\* update_tx with the removal of the old marker left out
update_tx_keeps_old_marker(t, id, deps_changed, old_deps_hash, new_deps_exists, new_deps_hash, new_dependencies_json, updated_storage_json) ==
    LET t2 == IF deps_changed /\ ~new_deps_exists
              THEN tree_insert(t, new_deps_hash, new_dependencies_json)
              ELSE t
        t3 == IF deps_changed
              THEN tree_insert(t2, marker_key(new_deps_hash, id), EmptyBytes)
              ELSE t2
    IN tree_insert(t3, id, updated_storage_json)

\* update_tx that removes the old marker also when the dependencies stay
update_tx_always_unfiles(t, id, deps_changed, old_deps_hash, new_deps_exists, new_deps_hash, new_dependencies_json, updated_storage_json) ==
    LET t1 == tree_remove(t, marker_key(old_deps_hash, id))
        t2 == IF deps_changed /\ ~new_deps_exists
              THEN tree_insert(t1, new_deps_hash, new_dependencies_json)
              ELSE t1
        t3 == IF deps_changed
              THEN tree_insert(t2, marker_key(new_deps_hash, id), EmptyBytes)
              ELSE t2
    IN tree_insert(t3, id, updated_storage_json)

\* what the update transaction writes
update_tx(t, id, deps_changed, old_deps_hash, new_deps_exists, new_deps_hash, new_dependencies_json, updated_storage_json) ==
    LET t1 == IF deps_changed THEN tree_remove(t, marker_key(old_deps_hash, id)) ELSE t
        t2 == IF deps_changed /\ ~new_deps_exists
              THEN tree_insert(t1, new_deps_hash, new_dependencies_json)
              ELSE t1
        t3 == IF deps_changed
              THEN tree_insert(t2, marker_key(new_deps_hash, id), EmptyBytes)
              ELSE t2
    IN tree_insert(t3, id, updated_storage_json)

\* Collection::update_json
Collection_update_json(t, id, json, io) ==
    IF ~tree_contains_key(t, id) THEN Fail(t, NotFound)
    ELSE IF ~parses(t[id]) THEN Fail(t, DeserializationError)
    ELSE LET old_storage_value == from_str(t[id]) IN
    IF ~is_storage_value(old_storage_value) THEN Fail(t, DeserializationError)
    ELSE IF old_storage_value.m["deps"].t # "str" THEN Fail(t, DeserializationError)
    ELSE LET old_body == old_storage_value.m["body"]
             old_deps_hash == old_storage_value.m["deps"].s
         IN
    IF ~parses(json) THEN Fail(t, DeserializationError)
    ELSE LET new_value == from_str(json) IN
    IF ~is_document(new_value) THEN Fail(t, DeserializationError)
    ELSE LET new_body == new_value.m["body"]
             new_dependencies == new_value.m["dependencies"]
             new_dependencies_json == to_string(new_dependencies)
             new_deps_hash == get_json_hash(new_dependencies_json)
             body_changed == to_string(old_body) # to_string(new_body)
             deps_changed == old_deps_hash # new_deps_hash
         IN
    IF validate_body(new_body) # Ok THEN Fail(t, validate_body(new_body))
    ELSE IF validate_dependencies(new_dependencies) # Ok
    THEN Fail(t, validate_dependencies(new_dependencies))
    ELSE IF ~body_changed /\ ~deps_changed THEN [res |-> Ok, tree |-> t, id |-> id]
    ELSE LET new_storage_value ==
                 JObj([f \in DOMAIN old_storage_value.m |->
                         IF f = "body" /\ body_changed THEN new_body
                         ELSE IF f = "deps" /\ deps_changed THEN JStr(new_deps_hash)
                         ELSE old_storage_value.m[f]])
             updated_storage_json == to_string(new_storage_value)
             new_deps_exists == tree_contains_key(t, new_deps_hash)
         IN transaction_then_flush(t,
                update_tx(t, id, deps_changed, old_deps_hash, new_deps_exists,
                          new_deps_hash, new_dependencies_json, updated_storage_json),
                id, io)

\* the capped count of delete_json's prefix scan (the loop breaks at 2)
count_items(t, prefix) ==
    LET n == Len(scan_prefix(t, prefix)) IN IF n >= 2 THEN 2 ELSE n

\* delete_tx with the removal of the document record left out
delete_tx_keeps_record(t, id, deps_hash, items_cnt) ==
    LET t2 == tree_remove(t, marker_key(deps_hash, id))
    IN IF items_cnt >= 2 THEN tree_remove(t2, deps_hash) ELSE t2

\* delete_tx that removes the blob when fewer than two markers were counted
delete_tx_removes_unshared_blob(t, id, deps_hash, items_cnt) ==
    LET t1 == tree_remove(t, id)
        t2 == tree_remove(t1, marker_key(deps_hash, id))
    IN IF items_cnt < 2 THEN tree_remove(t2, deps_hash) ELSE t2

\* what the delete transaction writes
delete_tx(t, id, deps_hash, items_cnt) ==
    LET t1 == tree_remove(t, id)
        t2 == tree_remove(t1, marker_key(deps_hash, id))
    IN IF items_cnt >= 2 THEN tree_remove(t2, deps_hash) ELSE t2

\* Collection::delete_json
Collection_delete_json(t, id, io) ==
    IF ~tree_contains_key(t, id) THEN Fail(t, NotFound)
    ELSE IF ~parses(t[id]) THEN Fail(t, DeserializationError)
    ELSE LET storage_value == from_str(t[id]) IN
    IF ~is_object(storage_value) \/ ~contains_key(storage_value, "deps")
    THEN Fail(t, DeserializationError)
    ELSE IF storage_value.m["deps"].t # "str" THEN Fail(t, DeserializationError)
    ELSE LET deps_hash == storage_value.m["deps"].s
             prefix == deps_hash \o <<"_">>
             items_cnt == count_items(t, prefix)
         IN transaction_then_flush(t, delete_tx(t, id, deps_hash, items_cnt), id, io)

\* ---------------------------------------------------------- Subcollection
\* struct Subcollection: the pinned dependency value and its hash
NoSub == [dependencies_hash |-> NoId]

\* the write of subcollection_json filed under the hash of the canonical text
subcollection_insert_at_canonical_hash(t, dependencies_hash, dependencies_json) ==
    tree_insert(t, get_json_hash(to_string(from_str(dependencies_json))), dependencies_json)

\* `self.tree.insert(dependencies_hash, dependencies_json)` of subcollection_json
subcollection_insert(t, dependencies_hash, dependencies_json) ==
    tree_insert(t, dependencies_hash, dependencies_json)

\* Collection::subcollection_json: the hash is taken of the text as given
Collection_subcollection_json(t, dependencies_json, io) ==
    IF ~parses(dependencies_json)
    THEN [res |-> DeserializationError, tree |-> t, sub |-> NoSub]
    ELSE LET dependencies == from_str(dependencies_json)
             dependencies_hash == get_json_hash(dependencies_json)
             sub == [dependencies |-> dependencies, dependencies_hash |-> dependencies_hash]
         IN
    IF tree_contains_key(t, dependencies_hash) THEN [res |-> Ok, tree |-> t, sub |-> sub]
    ELSE LET r == transaction_then_flush(t,
                      subcollection_insert(t, dependencies_hash, dependencies_json), NoId, io)
         IN [res |-> r.res, tree |-> r.tree, sub |-> IF r.res = Ok THEN sub ELSE NoSub]

\* Subcollection::check_belongs_to_subcollection
check_belongs_to_subcollection(t, sub, id) ==
    IF ~tree_contains_key(t, marker_key(sub.dependencies_hash, id))
    THEN NotFound
    ELSE Ok

\* Subcollection::insert_json
Subcollection_insert_json(t, sub, body_json, g, io) ==
    IF ~parses(body_json) THEN Fail(t, DeserializationError)
    ELSE LET body == from_str(body_json)
             full_json == to_string(Document(body, sub.dependencies))
         IN Collection_insert_json(t, full_json, g, io)

\* Subcollection::get_json: the result and the body text returned
Subcollection_get_json(t, sub, id) ==
    IF check_belongs_to_subcollection(t, sub, id) # Ok THEN [res |-> NotFound]
    ELSE IF ~tree_contains_key(t, id) THEN [res |-> NotFound]
    ELSE IF ~parses(t[id]) THEN [res |-> DeserializationError]
    ELSE LET storage_value == from_str(t[id]) IN
    IF ~is_object(storage_value) \/ ~contains_key(storage_value, "body")
    THEN [res |-> DeserializationError]
    ELSE [res |-> Ok, out |-> to_string(storage_value.m["body"])]

\* Subcollection::update_json: rewrites the record with a plain tree.insert
Subcollection_update_json(t, sub, id, body_json, io) ==
    IF check_belongs_to_subcollection(t, sub, id) # Ok THEN Fail(t, NotFound)
    ELSE IF ~tree_contains_key(t, id) THEN Fail(t, NotFound)
    ELSE IF ~parses(t[id]) THEN Fail(t, DeserializationError)
    ELSE LET storage_value == from_str(t[id]) IN
    IF ~is_storage_value(storage_value) THEN Fail(t, DeserializationError)
    ELSE LET old_body == storage_value.m["body"] IN
    IF ~parses(body_json) THEN Fail(t, DeserializationError)
    ELSE LET new_body == from_str(body_json)
             body_changed == to_string(old_body) # to_string(new_body)
         IN
    IF ~body_changed THEN [res |-> Ok, tree |-> t, id |-> id]
    ELSE LET updated_json ==
                 to_string(JObj([storage_value.m EXCEPT !["body"] = new_body]))
         IN transaction_then_flush(t, tree_insert(t, id, updated_json), id, io)

\* Subcollection::delete_json
Subcollection_delete_json(t, sub, id, io) ==
    IF check_belongs_to_subcollection(t, sub, id) # Ok THEN Fail(t, NotFound)
    ELSE Collection_delete_json(t, id, io)

\* str::split(sep): the parts of s between the separators
RECURSIVE split_from(_, _, _)
split_from(s, sep, part) ==
    IF s = <<>> THEN <<part>>
    ELSE IF Head(s) = sep THEN <<part>> \o split_from(Tail(s), sep, <<>>)
    ELSE split_from(Tail(s), sep, Append(part, Head(s)))

split(s, sep) == split_from(s, sep, <<>>)

\* [&str]::join(sep)
RECURSIVE join(_, _)
join(parts, sep) ==
    IF parts = <<>> THEN <<>>
    ELSE IF Len(parts) = 1 THEN parts[1]
    ELSE parts[1] \o <<sep>> \o join(Tail(parts), sep)

\* marker_id with the hash part kept (parts[0..] for parts[1..])
marker_id_keeps_hash(marker) == join(split(marker, "_"), "_")

\* the id get_keys recovers from one marker key
marker_id(marker) == join(Tail(split(marker, "_")), "_")

\* Subcollection::get_keys: the ids in the order of the scan
Subcollection_get_keys(t, sub) ==
    LET markers == scan_prefix(t, sub.dependencies_hash \o <<"_">>)
        kept == SelectSeq(markers, LAMBDA k : Len(split(k, "_")) > 1)
    IN [i \in 1..Len(kept) |-> marker_id(kept[i])]

\* ------------------------------------------------------- the state machine
NoOut == [lay |-> "none"]

Call(op, res, id, sub, out) == [op |-> op, res |-> res, id |-> id, sub |-> sub, out |-> out]

\* the metadata record Database::create_collection writes
metadata_json == to_string(JObj([name |-> JStr(<<"c">>), created_at |-> JNum(0)]))

\* the ids callers pass: every token, live or not
IdArgs == IdPool

\* struct CollectionMetadata, as far as the Collection reads it
no_schemas == [body_schema |-> None, dependencies_schema |-> None]

\* the threads that call into the collection
Threads == {1, 2}

\* no Database is looked at: the collection is all there is
NoDatabase == [open |-> FALSE]

Idle(calls) == [pc |-> "idle", calls |-> calls]

\* the collection right after Database::create_collection
Init ==
    /\ tree = [k \in {METADATA_KEY} |-> metadata_json]
    /\ subs = {}
    /\ docs = [k \in {} |-> NoOut]
    /\ last = Call("create_collection", Ok, NoId, NoSub, NoOut)
    /\ metadata = no_schemas
    /\ th = [p \in Threads |-> Idle(0)]
    /\ db = NoDatabase

docs_put(id, doc) == [x \in DOMAIN docs \cup {id} |-> IF x = id THEN doc ELSE docs[x]]

docs_drop(id) == [x \in DOMAIN docs \ {id} |-> docs[x]]

\* one call of Collection::insert_json
InsertCall(json, g, io) ==
    LET r == Collection_insert_json(tree, json, g, io) IN
    /\ tree' = r.tree
    /\ docs' = IF r.tree # tree THEN docs_put(g.id, from_str(json)) ELSE docs
    /\ last' = Call("insert_json", r.res, r.id, NoSub, NoOut)
    /\ UNCHANGED <<subs, metadata, th, db>>

Insert ==
    \E json \in DocTexts, g \in generate_unique_id(tree) : InsertCall(json, g, "ok")

Get ==
    \E id \in IdArgs :
        LET r == Collection_get_json(tree, id) IN
        /\ last' = Call("get_json", r.res, id, NoSub, IF r.res = Ok THEN r.out ELSE NoOut)
        /\ UNCHANGED <<tree, subs, docs, metadata, th, db>>

\* one call of Collection::update_json
UpdateCall(id, json, io) ==
    LET r == Collection_update_json(tree, id, json, io) IN
    /\ tree' = r.tree
    /\ docs' = IF r.res = Ok \/ r.tree # tree THEN docs_put(id, from_str(json)) ELSE docs
    /\ last' = Call("update_json", r.res, id, NoSub, NoOut)
    /\ UNCHANGED <<subs, metadata, th, db>>

Update ==
    \E id \in IdArgs, json \in DocTexts : UpdateCall(id, json, "ok")

\* one call of Collection::delete_json
DeleteCall(id, io) ==
    LET r == Collection_delete_json(tree, id, io) IN
    /\ tree' = r.tree
    /\ docs' = IF r.tree # tree THEN docs_drop(id) ELSE docs
    /\ last' = Call("delete_json", r.res, id, NoSub, NoOut)
    /\ UNCHANGED <<subs, metadata, th, db>>

Delete ==
    \E id \in IdArgs : DeleteCall(id, "ok")

\* one call of Collection::subcollection_json; the caller keeps the handle
SubcollectionJsonCall(dependencies_json, io) ==
    LET r == Collection_subcollection_json(tree, dependencies_json, io) IN
    /\ r.res = Ok => Cardinality(subs \cup {r.sub}) <= MaxSubs
    /\ tree' = r.tree
    /\ subs' = IF r.res = Ok THEN subs \cup {r.sub} ELSE subs
    /\ last' = Call("subcollection_json", r.res, NoId, r.sub, NoOut)
    /\ UNCHANGED <<docs, metadata, th, db>>

SubcollectionJson ==
    \E dependencies_json \in DepTexts : SubcollectionJsonCall(dependencies_json, "ok")

\* the caller lets go of a Subcollection handle; storage is not touched
DropSub ==
    \E sub \in subs :
        /\ subs' = subs \ {sub}
        /\ last' = Call("drop", Ok, NoId, sub, NoOut)
        /\ UNCHANGED <<tree, docs, metadata, th, db>>

\* one call of Subcollection::insert_json
SubInsertCall(sub, body_json, g, io) ==
    LET r == Subcollection_insert_json(tree, sub, body_json, g, io) IN
    /\ tree' = r.tree
    /\ docs' = IF r.tree # tree
               THEN docs_put(g.id, Document(from_str(body_json), sub.dependencies))
               ELSE docs
    /\ last' = Call("sub_insert_json", r.res, r.id, sub, NoOut)
    /\ UNCHANGED <<subs, metadata, th, db>>

SubInsert ==
    \E sub \in subs, body_json \in BodyTexts, g \in generate_unique_id(tree) :
        SubInsertCall(sub, body_json, g, "ok")

SubGet ==
    \E sub \in subs, id \in IdArgs :
        LET r == Subcollection_get_json(tree, sub, id) IN
        /\ last' = Call("sub_get_json", r.res, id, sub, IF r.res = Ok THEN r.out ELSE NoOut)
        /\ UNCHANGED <<tree, subs, docs, metadata, th, db>>

\* one call of Subcollection::update_json
SubUpdateCall(sub, id, body_json, io) ==
    LET r == Subcollection_update_json(tree, sub, id, body_json, io) IN
    /\ tree' = r.tree
    /\ docs' = IF r.res = Ok \/ r.tree # tree
               THEN docs_put(id, Document(from_str(body_json), docs[id].m["dependencies"]))
               ELSE docs
    /\ last' = Call("sub_update_json", r.res, id, sub, NoOut)
    /\ UNCHANGED <<subs, metadata, th, db>>

SubUpdate ==
    \E sub \in subs, id \in IdArgs, body_json \in BodyTexts :
        SubUpdateCall(sub, id, body_json, "ok")

\* one call of Subcollection::delete_json
SubDeleteCall(sub, id, io) ==
    LET r == Subcollection_delete_json(tree, sub, id, io) IN
    /\ tree' = r.tree
    /\ docs' = IF r.tree # tree THEN docs_drop(id) ELSE docs
    /\ last' = Call("sub_delete_json", r.res, id, sub, NoOut)
    /\ UNCHANGED <<subs, metadata, th, db>>

SubDelete ==
    \E sub \in subs, id \in IdArgs : SubDeleteCall(sub, id, "ok")

SubGetKeys ==
    \E sub \in subs :
        /\ last' = Call("sub_get_keys", Ok, NoId, sub, Subcollection_get_keys(tree, sub))
        /\ UNCHANGED <<tree, subs, docs, metadata, th, db>>

\* the calls made one at a time, with well-formed arguments, on a collection
\* without schemas and a sled that raises no error
Next ==
    \/ Insert
    \/ Get
    \/ Update
    \/ Delete
    \/ SubcollectionJson
    \/ DropSub
    \/ SubInsert
    \/ SubGet
    \/ SubUpdate
    \/ SubDelete
    \/ SubGetKeys

Spec == Init /\ [][Next]_vars

\* ------------------------------------------ schemas, bad input, sled errors
\* CollectionMetadata of a collection made by create_collection_with_schema_json:
\* both schemas present and compiled
schema_metadata ==
    [body_schema |-> Some(Schema(to_string(integer_field_schema("a")), TRUE)),
     dependencies_schema |-> Some(Schema(to_string(integer_field_schema("k")), TRUE))]

\* the metadata record create_collection_with_schema_json writes
schema_metadata_json ==
    to_string(JObj([name |-> JStr(<<"c">>),
                    body_schema |-> JStr(schema_metadata.body_schema.v.schema_json),
                    dependencies_schema |-> JStr(schema_metadata.dependencies_schema.v.schema_json),
                    created_at |-> JNum(0)]))

\* the collection right after Database::create_collection_with_schema_json
InitEnv ==
    /\ tree = [k \in {METADATA_KEY} |-> schema_metadata_json]
    /\ subs = {}
    /\ docs = [k \in {} |-> NoOut]
    /\ last = Call("create_collection", Ok, NoId, NoSub, NoOut)
    /\ metadata = schema_metadata
    /\ th = [p \in Threads |-> Idle(0)]
    /\ db = NoDatabase

InsertEnv ==
    \E json \in AnyDocTexts, g \in generate_unique_id(tree), io \in IoOutcomes :
        InsertCall(json, g, io)

UpdateEnv ==
    \E id \in IdArgs, json \in AnyDocTexts, io \in IoOutcomes : UpdateCall(id, json, io)

DeleteEnv ==
    \E id \in IdArgs, io \in IoOutcomes : DeleteCall(id, io)

SubcollectionJsonEnv ==
    \E dependencies_json \in AnyDepTexts, io \in IoOutcomes :
        SubcollectionJsonCall(dependencies_json, io)

SubInsertEnv ==
    \E sub \in subs, body_json \in AnyBodyTexts, g \in generate_unique_id(tree), io \in IoOutcomes :
        SubInsertCall(sub, body_json, g, io)

SubUpdateEnv ==
    \E sub \in subs, id \in IdArgs, body_json \in AnyBodyTexts, io \in IoOutcomes :
        SubUpdateCall(sub, id, body_json, io)

SubDeleteEnv ==
    \E sub \in subs, id \in IdArgs, io \in IoOutcomes : SubDeleteCall(sub, id, io)

\* the calls made one at a time with any argument, on a collection with
\* both schemas, over a sled whose transactions and flushes may fail
NextEnv ==
    \/ InsertEnv
    \/ Get
    \/ UpdateEnv
    \/ DeleteEnv
    \/ SubcollectionJsonEnv
    \/ DropSub
    \/ SubInsertEnv
    \/ SubGet
    \/ SubUpdateEnv
    \/ SubDeleteEnv
    \/ SubGetKeys

SpecEnv == InitEnv /\ [][NextEnv]_vars

\* ------------------------------------------------------ overlapping calls
\* Threads call insert_json, update_json and delete_json on one collection
\* without schemas.  A call takes its steps in the order of the code: the
\* reads made before the transaction (tree.get, contains_key, scan_prefix)
\* are steps of their own, the transaction with the flush is one step, and
\* steps of other threads may come in between.
ConcDocTexts == {to_string(Document(b, d)) : b \in BodyValues, d \in DepValues}

\* the call of thread p has returned
Return(p) == th' = [th EXCEPT ![p] = Idle(th[p].calls + 1)]

MayCall(p) == th[p].pc = "idle" /\ th[p].calls < MaxCalls

\* insert_json up to generate_unique_id (lib.rs 394-433)
InsertBegin(p) ==
    /\ MayCall(p)
    /\ \E json \in ConcDocTexts, g \in generate_unique_id(tree) :
          LET value == from_str(json)
              body == value.m["body"]
              dependencies_json == to_string(value.m["dependencies"])
              deps_hash == get_json_hash(dependencies_json)
          IN IF g.res # Ok THEN Return(p)
             ELSE th' = [th EXCEPT ![p] =
                            [pc |-> "insert_probe", calls |-> th[p].calls, id |-> g.id,
                             storage_json |-> to_string(JObj([deps |-> JStr(deps_hash), body |-> body])),
                             deps_hash |-> deps_hash,
                             dependencies_json |-> dependencies_json]]
    /\ UNCHANGED <<tree, subs, docs, last, metadata, db>>

\* `let deps_exists = self.tree.contains_key(..)?` (lib.rs 435)
InsertProbe(p) ==
    /\ th[p].pc = "insert_probe"
    /\ th' = [th EXCEPT ![p] = [f \in DOMAIN th[p] \cup {"deps_exists"} |->
                                   IF f = "pc" THEN "insert_tx"
                                   ELSE IF f = "deps_exists" THEN tree_contains_key(tree, th[p].deps_hash)
                                   ELSE th[p][f]]]
    /\ UNCHANGED <<tree, subs, docs, last, metadata, db>>

\* the transaction and the flush of insert_json (lib.rs 437-454)
InsertCommit(p) ==
    /\ th[p].pc = "insert_tx"
    /\ tree' = insert_tx(tree, th[p].id, th[p].storage_json, th[p].deps_exists,
                         th[p].deps_hash, th[p].dependencies_json)
    /\ Return(p)
    /\ UNCHANGED <<subs, docs, last, metadata, db>>

\* update_json up to the decision that something changed (lib.rs 520-596)
UpdateBeginWith(p, texts) ==
    /\ MayCall(p)
    /\ \E id \in IdArgs, json \in texts :
          IF ~tree_contains_key(tree, id) THEN Return(p)
          ELSE LET old_storage_value == from_str(tree[id])
                   old_body == old_storage_value.m["body"]
                   old_deps_hash == old_storage_value.m["deps"].s
                   new_value == from_str(json)
                   new_body == new_value.m["body"]
                   new_dependencies_json == to_string(new_value.m["dependencies"])
                   new_deps_hash == get_json_hash(new_dependencies_json)
                   body_changed == to_string(old_body) # to_string(new_body)
                   deps_changed == old_deps_hash # new_deps_hash
                   new_storage_value ==
                       JObj([f \in DOMAIN old_storage_value.m |->
                               IF f = "body" /\ body_changed THEN new_body
                               ELSE IF f = "deps" /\ deps_changed THEN JStr(new_deps_hash)
                               ELSE old_storage_value.m[f]])
               IN IF ~body_changed /\ ~deps_changed THEN Return(p)
                  ELSE th' = [th EXCEPT ![p] =
                                 [pc |-> "update_probe", calls |-> th[p].calls, id |-> id,
                                  deps_changed |-> deps_changed,
                                  old_deps_hash |-> old_deps_hash,
                                  new_deps_hash |-> new_deps_hash,
                                  new_dependencies_json |-> new_dependencies_json,
                                  updated_storage_json |-> to_string(new_storage_value)]]
    /\ UNCHANGED <<tree, subs, docs, last, metadata, db>>

UpdateBegin(p) == UpdateBeginWith(p, ConcDocTexts)

\* `let new_deps_exists = self.tree.contains_key(..)?` (lib.rs 598)
UpdateProbe(p) ==
    /\ th[p].pc = "update_probe"
    /\ th' = [th EXCEPT ![p] = [f \in DOMAIN th[p] \cup {"new_deps_exists"} |->
                                   IF f = "pc" THEN "update_tx"
                                   ELSE IF f = "new_deps_exists"
                                   THEN tree_contains_key(tree, th[p].new_deps_hash)
                                   ELSE th[p][f]]]
    /\ UNCHANGED <<tree, subs, docs, last, metadata, db>>

\* the transaction and the flush of update_json (lib.rs 600-621)
UpdateCommit(p) ==
    /\ th[p].pc = "update_tx"
    /\ tree' = update_tx(tree, th[p].id, th[p].deps_changed, th[p].old_deps_hash,
                         th[p].new_deps_exists, th[p].new_deps_hash,
                         th[p].new_dependencies_json, th[p].updated_storage_json)
    /\ Return(p)
    /\ UNCHANGED <<subs, docs, last, metadata, db>>

\* delete_json up to the `deps` pointer of the record (lib.rs 629-646)
DeleteBegin(p) ==
    /\ MayCall(p)
    /\ \E id \in IdArgs :
          IF ~tree_contains_key(tree, id) THEN Return(p)
          ELSE th' = [th EXCEPT ![p] =
                         [pc |-> "delete_scan", calls |-> th[p].calls, id |-> id,
                          deps_hash |-> from_str(tree[id]).m["deps"].s]]
    /\ UNCHANGED <<tree, subs, docs, last, metadata, db>>

\* the prefix scan that counts the markers of the group (lib.rs 648-657)
DeleteScan(p) ==
    /\ th[p].pc = "delete_scan"
    /\ th' = [th EXCEPT ![p] = [f \in DOMAIN th[p] \cup {"items_cnt"} |->
                                   IF f = "pc" THEN "delete_tx"
                                   ELSE IF f = "items_cnt"
                                   THEN count_items(tree, th[p].deps_hash \o <<"_">>)
                                   ELSE th[p][f]]]
    /\ UNCHANGED <<tree, subs, docs, last, metadata, db>>

\* the transaction and the flush of delete_json (lib.rs 659-675)
DeleteCommit(p) ==
    /\ th[p].pc = "delete_tx"
    /\ tree' = delete_tx(tree, th[p].id, th[p].deps_hash, th[p].items_cnt)
    /\ Return(p)
    /\ UNCHANGED <<subs, docs, last, metadata, db>>

NextConc ==
    \E p \in Threads :
        \/ InsertBegin(p)
        \/ InsertProbe(p)
        \/ InsertCommit(p)
        \/ UpdateBegin(p)
        \/ UpdateProbe(p)
        \/ UpdateCommit(p)
        \/ DeleteBegin(p)
        \/ DeleteScan(p)
        \/ DeleteCommit(p)

SpecConc == Init /\ [][NextConc]_vars

\* --------------------------------- overlapping calls on different documents
\* The threads of SpecConc when no two calls in progress target the same
\* document id: a call that would work on the id of a call in progress (an
\* insert drawing that token included) does not begin.
DistinctTarget(p) ==
    th'[p].pc # "idle" => \A q \in Threads \ {p} : th[q].pc # "idle" => th[q].id # th'[p].id

InsertBeginDistinct(p) == InsertBegin(p) /\ DistinctTarget(p)

UpdateBeginDistinct(p) == UpdateBegin(p) /\ DistinctTarget(p)

DeleteBeginDistinct(p) == DeleteBegin(p) /\ DistinctTarget(p)

NextConcDistinct ==
    \E p \in Threads :
        \/ InsertBeginDistinct(p)
        \/ InsertProbe(p)
        \/ InsertCommit(p)
        \/ UpdateBeginDistinct(p)
        \/ UpdateProbe(p)
        \/ UpdateCommit(p)
        \/ DeleteBeginDistinct(p)
        \/ DeleteScan(p)
        \/ DeleteCommit(p)

SpecConcDistinct == Init /\ [][NextConcDistinct]_vars

\* ------------------------------------------- overlapping updates, three groups
\* The threads of SpecConc inserting and updating, with a third dependency
\* value for update_json to move a document to.
UpdateDocTexts == {to_string(Document(JObj([a |-> JNum(1)]), d)) : d \in DepValues \cup {TwoKeyDeps}}

UpdateBeginThree(p) == UpdateBeginWith(p, UpdateDocTexts)

NextConcUpdate ==
    \E p \in Threads :
        \/ InsertBegin(p)
        \/ InsertProbe(p)
        \/ InsertCommit(p)
        \/ UpdateBeginThree(p)
        \/ UpdateProbe(p)
        \/ UpdateCommit(p)

SpecConcUpdate == Init /\ [][NextConcUpdate]_vars

\* ------------------------------------------------------- any key as an id
\* The calls of Spec made with any string as the id: a token, the metadata
\* key, the key of a blob, the key of a marker; and with a dependency value
\* that looks like a stored record.
KeyArgs == IdPool \cup DOMAIN tree

KeyDocTexts == {to_string(Document(JObj([a |-> JNum(1)]), d)) : d \in {DepValueSeq[1], TrapDeps}}

KeyDepTexts == {to_string(TrapDeps)}

KeyBodyTexts == {to_string(b) : b \in BodyValues}

InsertKeys ==
    \E json \in KeyDocTexts, g \in generate_unique_id(tree) : InsertCall(json, g, "ok")

UpdateKeys ==
    \E id \in KeyArgs, json \in KeyDocTexts : UpdateCall(id, json, "ok")

DeleteKeys ==
    \E id \in KeyArgs : DeleteCall(id, "ok")

SubcollectionJsonKeys ==
    \E dependencies_json \in KeyDepTexts : SubcollectionJsonCall(dependencies_json, "ok")

SubInsertKeys ==
    \E sub \in subs, g \in generate_unique_id(tree) :
        SubInsertCall(sub, to_string(JObj([a |-> JNum(1)])), g, "ok")

\* the history docs follows a body rewritten by Subcollection::update_json
\* only for an id it knows
SubUpdateKeys ==
    \E sub \in subs, id \in KeyArgs, body_json \in KeyBodyTexts :
        LET r == Subcollection_update_json(tree, sub, id, body_json, "ok") IN
        /\ tree' = r.tree
        /\ docs' = IF r.tree # tree /\ id \in DOMAIN docs
                   THEN docs_put(id, Document(from_str(body_json), docs[id].m["dependencies"]))
                   ELSE docs
        /\ last' = Call("sub_update_json", r.res, id, sub, NoOut)
        /\ UNCHANGED <<subs, metadata, th, db>>

SubDeleteKeys ==
    \E sub \in subs, id \in KeyArgs : SubDeleteCall(sub, id, "ok")

NextKeys ==
    \/ InsertKeys
    \/ UpdateKeys
    \/ DeleteKeys
    \/ SubcollectionJsonKeys
    \/ DropSub
    \/ SubInsertKeys
    \/ SubUpdateKeys
    \/ SubDeleteKeys

SpecKeys == Init /\ [][NextKeys]_vars

\* ----------------------------------------------------------------- Database
\* A sled::Db as the Database sees it: the named trees, each with its keys.
\* (The tree sled keeps under a name of its own is left out: names are the
\* names callers give to collections.)
NameSeq == <<"c", "d", "e">>

Names == {<<NameSeq[i]>> : i \in 1..MaxNames}

NoName == <<>>

\* the seconds SystemTime::now() may report
Times == {0, 1}

EmptyTree == [k \in {} |-> EmptyBytes]

\* db.tree_names()
tree_names(ts) == DOMAIN ts

\* db.open_tree(name): the tree of that name, made empty when there is none
open_tree(ts, name) == [x \in DOMAIN ts \cup {name} |-> IF x \in DOMAIN ts THEN ts[x] ELSE EmptyTree]

\* db.drop_tree(name)
drop_tree(ts, name) == [x \in DOMAIN ts \ {name} |-> ts[x]]

\* struct CollectionMetadata
CollectionMetadata(name, body_schema, dependencies_schema, created_at) == [name |-> name, body_schema |-> body_schema, dependencies_schema |-> dependencies_schema, created_at |-> created_at]

\* the metadata of no collection: what a caller without a handle holds
NoMetadata == CollectionMetadata(NoName, None, None, 0)

\* serde_json::to_string(&metadata): a schema is written without its
\* compiled validator (#[serde(skip)]), an absent schema is not written
\* (skip_serializing_if)
metadata_fields(md) ==
    {"name", "created_at"}
    \cup (IF md.body_schema.some THEN {"body_schema"} ELSE {})
    \cup (IF md.dependencies_schema.some THEN {"dependencies_schema"} ELSE {})

serialize_schema(schema) == JObj([schema_json |-> JStr(schema.schema_json)])

serialize_metadata(md) ==
    to_string(JObj([f \in metadata_fields(md) |->
        CASE f = "name" -> JStr(md.name)
          [] f = "created_at" -> JNum(md.created_at)
          [] f = "body_schema" -> serialize_schema(md.body_schema.v)
          [] f = "dependencies_schema" -> serialize_schema(md.dependencies_schema.v)]))

\* serde_json::from_slice::<CollectionMetadata>: the validator of a schema
\* read back is absent
deserialize_schema(v, field) ==
    IF contains_key(v, field) THEN Some(Schema(v.m[field].m["schema_json"].s, FALSE)) ELSE None

deserialize_metadata(bytes) ==
    LET v == from_str(bytes)
    IN CollectionMetadata(v.m["name"].s, deserialize_schema(v, "body_schema"),
                          deserialize_schema(v, "dependencies_schema"), v.m["created_at"].n)

\* the type names of JSON Schema draft 7
TypeNames == {"array", "boolean", "integer", "null", "number", "object", "string"}

\* JSONSchema::options().with_draft(Draft::Draft7).compile(&schema_value)
\* succeeds, for the keywords `type` and `properties`
RECURSIVE compiles(_)
compiles(schema_value) ==
    /\ contains_key(schema_value, "type") => schema_value.m["type"].s \in TypeNames
    /\ contains_key(schema_value, "properties")
       => \A p \in DOMAIN schema_value.m["properties"].m : compiles(schema_value.m["properties"].m[p])

\* Collection::compile_schemas that leaves the validators absent
compile_schema_never(schema) == [res |-> Ok, schema |-> schema]

\* Collection::compile_schemas, for one of the two schemas
compile_schema(schema) ==
    IF ~schema.some \/ (schema.some /\ schema.v.compiled) THEN [res |-> Ok, schema |-> schema]
    ELSE IF ~parses(schema.v.schema_json) THEN [res |-> DeserializationError, schema |-> schema]
    ELSE IF ~compiles(from_str(schema.v.schema_json)) THEN [res |-> SchemaCompilationError, schema |-> schema]
    ELSE [res |-> Ok, schema |-> Some(Schema(schema.v.schema_json, TRUE))]

\* Collection::compile_schemas
compile_schemas(md) ==
    LET b == compile_schema(md.body_schema)
        d == compile_schema(md.dependencies_schema)
    IN IF b.res # Ok THEN [res |-> b.res, metadata |-> md]
       ELSE IF d.res # Ok THEN [res |-> d.res, metadata |-> md]
       ELSE [res |-> Ok, metadata |-> [md EXCEPT !.body_schema = b.schema, !.dependencies_schema = d.schema]]

\* What a Database call gives back: the result, the trees after it, the
\* metadata of the Collection handle it returns, and whether it flushed.
DbResult(res, ts, md, flushed) == [res |-> res, trees |-> ts, metadata |-> md, flushed |-> flushed]

\* `tree.insert(METADATA_KEY, metadata_json)?; tree.flush()?` on the tree
\* just opened: a failed insert leaves the opened tree empty
insert_metadata_then_flush(opened, name, md, io) ==
    LET written == [opened EXCEPT ![name] = tree_insert(@, METADATA_KEY, serialize_metadata(md))]
    IN IF io = "tx_error" THEN DbResult(DatabaseError, opened, NoMetadata, FALSE)
       ELSE IF io = "flush_error" THEN DbResult(DatabaseError, written, NoMetadata, FALSE)
       ELSE DbResult(Ok, written, md, TRUE)

\* Database::create_collection that skips the test for the name
create_collection_overwrites(ts, name, now, io) ==
    insert_metadata_then_flush(open_tree(ts, name), name, CollectionMetadata(name, None, None, now), io)

\* Database::create_collection
Database_create_collection(ts, name, now, io) ==
    IF name \in tree_names(ts) THEN DbResult(AlreadyExists, ts, NoMetadata, FALSE)
    ELSE insert_metadata_then_flush(open_tree(ts, name), name, CollectionMetadata(name, None, None, now), io)

\* Database::create_collection_with_schema_json that opens the tree before
\* it looks at the schema texts
create_with_schema_json_opens_first(ts, name, body_schema_json, deps_schema_json, now, io) ==
    IF name \in tree_names(ts) THEN DbResult(AlreadyExists, ts, NoMetadata, FALSE)
    ELSE IF ~parses(body_schema_json) \/ ~parses(deps_schema_json)
    THEN DbResult(DeserializationError, open_tree(ts, name), NoMetadata, FALSE)
    ELSE IF ~compiles(from_str(body_schema_json)) \/ ~compiles(from_str(deps_schema_json))
    THEN DbResult(SchemaCompilationError, open_tree(ts, name), NoMetadata, FALSE)
    ELSE insert_metadata_then_flush(open_tree(ts, name), name, CollectionMetadata(name, Some(Schema(body_schema_json, TRUE)), Some(Schema(deps_schema_json, TRUE)), now), io)

\* Database::create_collection_with_schema_json
Database_create_collection_with_schema_json(ts, name, body_schema_json, deps_schema_json, now, io) ==
    IF name \in tree_names(ts) THEN DbResult(AlreadyExists, ts, NoMetadata, FALSE)
    ELSE IF ~parses(body_schema_json) THEN DbResult(DeserializationError, ts, NoMetadata, FALSE)
    ELSE IF ~parses(deps_schema_json) THEN DbResult(DeserializationError, ts, NoMetadata, FALSE)
    ELSE IF ~compiles(from_str(body_schema_json)) THEN DbResult(SchemaCompilationError, ts, NoMetadata, FALSE)
    ELSE IF ~compiles(from_str(deps_schema_json)) THEN DbResult(SchemaCompilationError, ts, NoMetadata, FALSE)
    ELSE LET body_schema == Schema(body_schema_json, TRUE)
             deps_schema == Schema(deps_schema_json, TRUE)
             md == CollectionMetadata(name, Some(body_schema), Some(deps_schema), now)
         IN insert_metadata_then_flush(open_tree(ts, name), name, md, io)

\* Database::get_collection
Database_get_collection(ts, name) ==
    IF name \notin tree_names(ts) THEN DbResult(NotFound, ts, NoMetadata, FALSE)
    ELSE IF ~tree_contains_key(ts[name], METADATA_KEY) THEN DbResult(DatabaseError, ts, NoMetadata, FALSE)
    ELSE IF ~parses(ts[name][METADATA_KEY]) THEN DbResult(DeserializationError, ts, NoMetadata, FALSE)
    ELSE LET c == compile_schemas(deserialize_metadata(ts[name][METADATA_KEY]))
         IN IF c.res # Ok THEN DbResult(c.res, ts, NoMetadata, FALSE)
            ELSE DbResult(Ok, ts, c.metadata, FALSE)

\* Database::collection_exists
Database_collection_exists(ts, name) == name \in tree_names(ts)

\* Database::list_collections
Database_list_collections(ts) == tree_names(ts)

\* Database::drop_collection that leaves the tree where it is
drop_collection_keeps_tree(ts, name) == DbResult(Ok, ts, NoMetadata, FALSE)

\* Database::drop_collection
Database_drop_collection(ts, name) == DbResult(Ok, drop_tree(ts, name), NoMetadata, FALSE)

\* ------------------------------------------------------------ HTTP boundary
OK == 200
BAD_REQUEST == 400
NOT_FOUND == 404
CONFLICT == 409
INTERNAL_SERVER_ERROR == 500

\* enum DbError
DbErrors == {SerializationError, DeserializationError, NotFound, DatabaseError, AlreadyExists, SchemaError, SchemaValidationError, SchemaCompilationError}

\* struct ApiResponse
ApiResponse(success, data, error) == [success |-> success, data |-> data, error |-> error]

\* a status_code that answers 404 to every error
status_code_always_404(err) == NOT_FOUND

\* AppError::status_code
status_code(err) ==
    CASE err = NotFound -> NOT_FOUND
      [] err = AlreadyExists -> CONFLICT
      [] err \in {DeserializationError, SerializationError, SchemaValidationError, SchemaError, SchemaCompilationError} -> BAD_REQUEST
      [] OTHER -> INTERNAL_SERVER_ERROR

\* AppError::error_response: the message is the error's own text
error_response(err) == [status |-> status_code(err), body |-> ApiResponse(FALSE, None, Some(err))]

\* a handler: `call?` and then the envelope of a success
respond(res, data) ==
    IF res = Ok THEN [status |-> OK, body |-> ApiResponse(TRUE, Some(data), None)]
    ELSE error_response(res)

\* ------------------------------------------------- the Database at work
\* One caller works on a Database: it creates, looks up, lists and drops
\* collections, and reads and writes documents through the Collection handle
\* it got last.  db.trees is what sled holds in memory and db.disk what the
\* last flush made durable; db.held names the collection of the handle, whose
\* metadata is `metadata`; db.made remembers the metadata of the handle each
\* collection's creation returned, db.asked the names creation was asked for;
\* db.http is what the server answers for the call.
DbCall(op, res, name, id, out) == [op |-> op, res |-> res, name |-> name, id |-> id, out |-> out]

\* the documents written through the handle: one with an integer field, one
\* whose body violates the body schema
DbDocTexts == {to_string(Document(b, DepValueSeq[1])) : b \in {JObj([a |-> JNum(1)]), StrBody}}

\* a schema naming a type JSON Schema does not have
unknown_type_schema == JObj([type |-> JStr("unknown_type")])

\* the schema texts callers submit for a field: well-formed, no JSON, no schema
SchemaTexts(field) == {to_string(integer_field_schema(field)), Malformed, to_string(unknown_type_schema)}

\* Database::new on an empty directory
InitDb ==
    /\ tree = EmptyTree
    /\ subs = {}
    /\ docs = [k \in {} |-> NoOut]
    /\ last = DbCall("new", Ok, NoName, NoId, NoOut)
    /\ metadata = NoMetadata
    /\ th = [p \in Threads |-> Idle(0)]
    /\ db = [open |-> TRUE,
             trees |-> [n \in {} |-> EmptyTree],
             disk |-> [n \in {} |-> EmptyTree],
             held |-> NoName,
             made |-> [n \in {} |-> NoMetadata],
             asked |-> {},
             http |-> respond(Ok, NoOut)]

made_put(name, md) == [x \in DOMAIN db.made \cup {name} |-> IF x = name THEN md ELSE db.made[x]]

made_drop(name) == [x \in DOMAIN db.made \ {name} |-> db.made[x]]

\* a creation call returns: on success the caller holds the new handle
Created(op, name, r) ==
    /\ db' = [db EXCEPT !.trees = r.trees,
                        !.disk = IF r.flushed THEN r.trees ELSE @,
                        !.held = IF r.res = Ok THEN name ELSE @,
                        !.made = IF r.res = Ok THEN made_put(name, r.metadata) ELSE @,
                        !.asked = @ \cup {name},
                        !.http = respond(r.res, name)]
    /\ metadata' = IF r.res = Ok THEN r.metadata ELSE metadata
    /\ last' = DbCall(op, r.res, name, NoId, NoOut)
    /\ UNCHANGED <<tree, subs, docs, th>>

CreateCollection ==
    \E name \in Names, now \in Times, io \in IoOutcomes :
        Created("create_collection", name, Database_create_collection(db.trees, name, now, io))

CreateCollectionWithSchemaJson ==
    \E name \in Names, body_schema_json \in SchemaTexts("a"), deps_schema_json \in SchemaTexts("k"), now \in Times, io \in IoOutcomes :
        Created("create_collection_with_schema_json", name,
                Database_create_collection_with_schema_json(db.trees, name, body_schema_json, deps_schema_json, now, io))

GetCollection ==
    \E name \in Names :
        LET r == Database_get_collection(db.trees, name) IN
        /\ db' = [db EXCEPT !.held = IF r.res = Ok THEN name ELSE @, !.http = respond(r.res, name)]
        /\ metadata' = IF r.res = Ok THEN r.metadata ELSE metadata
        /\ last' = DbCall("get_collection", r.res, name, NoId, NoOut)
        /\ UNCHANGED <<tree, subs, docs, th>>

CollectionExists ==
    \E name \in Names :
        LET exists == Database_collection_exists(db.trees, name) IN
        /\ db' = [db EXCEPT !.http = respond(Ok, exists)]
        /\ last' = DbCall("collection_exists", Ok, name, NoId, exists)
        /\ UNCHANGED <<tree, subs, docs, metadata, th>>

ListCollections ==
    LET collections == Database_list_collections(db.trees) IN
    /\ db' = [db EXCEPT !.http = respond(Ok, collections)]
    /\ last' = DbCall("list_collections", Ok, NoName, NoId, collections)
    /\ UNCHANGED <<tree, subs, docs, metadata, th>>

\* the caller lets go of the handle of a collection it drops
DropCollection ==
    \E name \in Names :
        LET r == Database_drop_collection(db.trees, name) IN
        /\ db' = [db EXCEPT !.trees = r.trees,
                            !.disk = IF r.flushed THEN r.trees ELSE @,
                            !.held = IF @ = name THEN NoName ELSE @,
                            !.made = made_drop(name),
                            !.http = respond(r.res, NoOut)]
        /\ metadata' = IF db.held = name THEN NoMetadata ELSE metadata
        /\ last' = DbCall("drop_collection", r.res, name, NoId, NoOut)
        /\ UNCHANGED <<tree, subs, docs, th>>

\* a call on the held Collection handle returns: a call that wrote and
\* whose flush went through has made everything durable
Returned(op, r, id, io) ==
    LET ts == [db.trees EXCEPT ![db.held] = r.tree] IN
    /\ db' = [db EXCEPT !.trees = ts,
                        !.disk = IF io = "ok" /\ r.tree # db.trees[db.held] THEN ts ELSE @,
                        !.http = respond(r.res, id)]
    /\ last' = DbCall(op, r.res, db.held, id, NoOut)
    /\ UNCHANGED <<tree, subs, docs, metadata, th>>

DbInsert ==
    /\ db.held # NoName
    /\ \E json \in DbDocTexts, g \in generate_unique_id(db.trees[db.held]), io \in IoOutcomes :
          Returned("insert_json", Collection_insert_json(db.trees[db.held], json, g, io), g.id, io)

DbUpdate ==
    /\ db.held # NoName
    /\ \E id \in IdArgs, json \in DbDocTexts, io \in IoOutcomes :
          Returned("update_json", Collection_update_json(db.trees[db.held], id, json, io), id, io)

DbDelete ==
    /\ db.held # NoName
    /\ \E id \in IdArgs, io \in IoOutcomes :
          Returned("delete_json", Collection_delete_json(db.trees[db.held], id, io), id, io)

\* the Database is closed and opened again: every handle is gone, and
\* closing has flushed
Reopen ==
    /\ db' = [db EXCEPT !.disk = db.trees, !.held = NoName]
    /\ metadata' = NoMetadata
    /\ last' = DbCall("new", Ok, NoName, NoId, NoOut)
    /\ UNCHANGED <<tree, subs, docs, th>>

\* sled's own flusher thread writes out what is pending
BackgroundFlush ==
    /\ db.disk # db.trees
    /\ db' = [db EXCEPT !.disk = db.trees]
    /\ UNCHANGED <<tree, subs, docs, last, metadata, th>>

NextDb ==
    \/ CreateCollection
    \/ CreateCollectionWithSchemaJson
    \/ GetCollection
    \/ CollectionExists
    \/ ListCollections
    \/ DropCollection
    \/ DbInsert
    \/ DbUpdate
    \/ DbDelete
    \/ Reopen
    \/ BackgroundFlush

SpecDb == InitDb /\ [][NextDb]_vars

\* ------------------------------------------- the draws of generate_unique_id
\* One caller inserts and deletes, and the loop of generate_unique_id takes
\* one step per attempt.  th[1] holds the caller's position: the document it
\* submitted, the attempts made so far and the token drawn last; once the
\* call has returned, `draws` is the number of tokens the call drew.
Drawn(draws) == [pc |-> "idle", calls |-> 0, draws |-> draws]

\* one attempt that returns whatever token it drew
draw_attempt_without_test(t, attempt, id) ==
    [res |-> Ok, id |-> id]

\* one attempt of the loop of generate_unique_id with the token `id` drawn:
\* the token is returned when it is no key of the tree, the last attempt
\* that collides ends the loop with the error, any other goes on
draw_attempt(t, attempt, id) ==
    IF ~tree_contains_key(t, id) THEN [res |-> Ok, id |-> id]
    ELSE IF attempt + 1 = MAX_ATTEMPTS THEN [res |-> DatabaseError, id |-> NoId]
    ELSE [res |-> "continue", id |-> id]

\* insert_json up to the call of generate_unique_id (lib.rs 394-424): a
\* text that fails the checks returns at once
InsertDrawBegin ==
    /\ th[1].pc = "idle"
    /\ \E json \in DocTexts :
          LET early == Collection_insert_json(tree, json, [res |-> "continue", id |-> NoId], "ok") IN
          IF early.res # "continue"
          THEN /\ th' = [th EXCEPT ![1] = Drawn(0)]
               /\ last' = Call("insert_json", early.res, NoId, NoSub, NoOut)
          ELSE /\ th' = [th EXCEPT ![1] = [pc |-> "draw", calls |-> 0, json |-> json, attempt |-> 0, id |-> NoId]]
               /\ last' = Call("generate_unique_id", "continue", NoId, NoSub, NoOut)
    /\ UNCHANGED <<tree, subs, docs, metadata, db>>

\* one attempt of the loop, and the rest of insert_json once the loop is left
InsertDraw ==
    /\ th[1].pc = "draw"
    /\ \E id \in IdPool :
          LET g == draw_attempt(tree, th[1].attempt, id) IN
          IF g.res = "continue"
          THEN /\ th' = [th EXCEPT ![1].attempt = @ + 1, ![1].id = id]
               /\ UNCHANGED <<tree, docs, last>>
          ELSE LET r == Collection_insert_json(tree, th[1].json, g, "ok") IN
               /\ tree' = r.tree
               /\ docs' = IF r.tree # tree THEN docs_put(g.id, from_str(th[1].json)) ELSE docs
               /\ last' = Call("insert_json", r.res, r.id, NoSub, NoOut)
               /\ th' = [th EXCEPT ![1] = Drawn(th[1].attempt + 1)]
    /\ UNCHANGED <<subs, metadata, db>>

\* the calls that take no draw are made between two inserts
GetDraw == th[1].pc = "idle" /\ Get

UpdateDraw == th[1].pc = "idle" /\ Update

DeleteDraw == th[1].pc = "idle" /\ Delete

NextDraw ==
    \/ InsertDrawBegin
    \/ InsertDraw
    \/ GetDraw
    \/ UpdateDraw
    \/ DeleteDraw

SpecDraw == Init /\ [][NextDraw]_vars

\* ------------------------------------- overlapping subcollection_json calls
\* The threads of SpecConc inserting, deleting and calling
\* subcollection_json, whose test for the blob and whose write of it are two
\* steps.  The handle a call returns is not kept.
\* subcollection_json up to the test for the blob (lib.rs 713-718)
SubcollectionBegin(p) ==
    /\ MayCall(p)
    /\ \E dependencies_json \in DepTexts :
          LET dependencies_hash == get_json_hash(dependencies_json) IN
          IF tree_contains_key(tree, dependencies_hash) THEN Return(p)
          ELSE th' = [th EXCEPT ![p] =
                         [pc |-> "sub_insert", calls |-> th[p].calls, id |-> NoId,
                          dependencies_hash |-> dependencies_hash,
                          dependencies_json |-> dependencies_json]]
    /\ UNCHANGED <<tree, subs, docs, last, metadata, db>>

\* the insert and the flush of subcollection_json (lib.rs 719-721)
SubcollectionInsert(p) ==
    /\ th[p].pc = "sub_insert"
    /\ tree' = subcollection_insert(tree, th[p].dependencies_hash, th[p].dependencies_json)
    /\ Return(p)
    /\ UNCHANGED <<subs, docs, last, metadata, db>>

NextConcSub ==
    \E p \in Threads :
        \/ InsertBegin(p)
        \/ InsertProbe(p)
        \/ InsertCommit(p)
        \/ DeleteBegin(p)
        \/ DeleteScan(p)
        \/ DeleteCommit(p)
        \/ SubcollectionBegin(p)
        \/ SubcollectionInsert(p)

SpecConcSub == Init /\ [][NextConcSub]_vars

\* ------------------------------------------- overlapping creation calls
\* Threads create collections on one Database.  A creation call takes its
\* steps in the order of the code: the test of tree_names (and, with schema
\* texts, their parsing and compiling), then open_tree, then the insert of
\* the metadata record with the flush; steps of other threads may come in
\* between.  A thread that has returned keeps the answer it got.
Answered(calls, res, name, md) == [pc |-> "idle", calls |-> calls, res |-> res, name |-> name, metadata |-> md]

\* a creation call up to open_tree: r is what the call answers when the
\* name is taken or a schema text is refused, md the metadata it is to write
CreateBeginWith(p, name, r, md) ==
    /\ MayCall(p)
    /\ th' = [th EXCEPT ![p] =
                 IF r.res # Ok THEN Answered(th[p].calls + 1, r.res, name, NoMetadata)
                 ELSE [pc |-> "create_open", calls |-> th[p].calls, name |-> name, metadata |-> md]]
    /\ UNCHANGED <<tree, subs, docs, last, metadata, db>>

\* create_collection up to open_tree (lib.rs 73-84)
CreateBegin(p) ==
    \E name \in Names, now \in Times :
        CreateBeginWith(p, name,
            IF name \in tree_names(db.trees) THEN DbResult(AlreadyExists, db.trees, NoMetadata, FALSE)
            ELSE DbResult(Ok, db.trees, NoMetadata, FALSE),
            CollectionMetadata(name, None, None, now))

\* create_collection_with_schema_json up to open_tree (lib.rs 131-184); the
\* answer for a name that is taken or a text that is refused is the one the
\* whole call gives, since none of them has written
CreateWithSchemaBegin(p) ==
    \E name \in Names, body_schema_json \in SchemaTexts("a"), now \in Times :
        LET deps_schema_json == to_string(integer_field_schema("k"))
            r == Database_create_collection_with_schema_json(db.trees, name, body_schema_json, deps_schema_json, now, "ok")
        IN CreateBeginWith(p, name, r,
               CollectionMetadata(name, Some(Schema(body_schema_json, TRUE)), Some(Schema(deps_schema_json, TRUE)), now))

\* `self.db.open_tree(name)` (lib.rs 86-89, 186-189)
CreateOpen(p) ==
    /\ th[p].pc = "create_open"
    /\ db' = [db EXCEPT !.trees = open_tree(db.trees, th[p].name)]
    /\ th' = [th EXCEPT ![p].pc = "create_write"]
    /\ UNCHANGED <<tree, subs, docs, last, metadata>>

\* the insert of the metadata record, the flush and the return
\* (lib.rs 91-110, 191-211)
CreateWrite(p) ==
    /\ th[p].pc = "create_write"
    /\ LET r == insert_metadata_then_flush(db.trees, th[p].name, th[p].metadata, "ok") IN
       /\ db' = [db EXCEPT !.trees = r.trees, !.disk = r.trees]
       /\ th' = [th EXCEPT ![p] = Answered(th[p].calls + 1, r.res, th[p].name, r.metadata)]
    /\ UNCHANGED <<tree, subs, docs, last, metadata>>

NextDbConc ==
    \E p \in Threads :
        \/ CreateBegin(p)
        \/ CreateWithSchemaBegin(p)
        \/ CreateOpen(p)
        \/ CreateWrite(p)

SpecDbConc == InitDb /\ [][NextDbConc]_vars

\* ------------------------------------------------- vocabulary of the claims
\* the ids with a document record
LiveIds == {id \in IdPool : tree_contains_key(tree, id)}

\* the `deps` pointer of the record stored under id in tree t
DepsIn(t, id) == from_str(t[id]).m["deps"].s

DepsOf(id) == DepsIn(tree, id)

\* every digest a dependency text of the model can have
AllHashes == {get_json_hash(text) : text \in DepTexts}

\* the marker keys of tree t, and those filed under hash h
MarkersIn(t) == {k \in DOMAIN t : Len(split(k, "_")) > 1}

GroupIn(t, h) == {k \in DOMAIN t : starts_with(k, h \o <<"_">>)}

\* ------------------------------------------------------------------- C1
\* C1: after every successful Collection call, the `deps` value of every
\* stored document record is the key of an existing dependency blob.
C1_DepsPointToBlob ==
    \A id \in LiveIds : tree_contains_key(tree, DepsOf(id))

\* ------------------------------------------------------------------- C2
\* C2: when two live documents inserted with equal dependencies share one
\* blob, a successful delete_json of one of them leaves the blob in place
\* and get_json of the other still returns its body and dependencies.
C2_Step ==
    \A id2 \in LiveIds \ {last'.id} :
        ( /\ last'.op = "delete_json"
          /\ last'.res = Ok
          /\ docs[id2].m["dependencies"] = docs[last'.id].m["dependencies"]
          /\ DepsOf(id2) = DepsOf(last'.id)
          /\ tree_contains_key(tree, DepsOf(id2)) )
        => /\ tree_contains_key(tree', DepsIn(tree, id2))
           /\ Collection_get_json(tree', id2) = [res |-> Ok, out |-> to_string(docs[id2])]

C2_SharedBlobSurvivesDelete == [][C2_Step]_vars

\* ------------------------------------------------------------------- C3
\* C3: a successful delete_json(id) of the only document of group H (the
\* only marker with prefix `H_` is `H_id`) removes the blob at key H.
C3_Step ==
    ( /\ last'.op = "delete_json"
      /\ last'.res = Ok
      /\ GroupIn(tree, DepsOf(last'.id)) = {marker_key(DepsOf(last'.id), last'.id)} )
    => ~tree_contains_key(tree', DepsOf(last'.id))

C3_LastDeleteRemovesBlob == [][C3_Step]_vars

\* ------------------------------------------------------------------- C4
\* C4: the marker keys of the tree are exactly the keys `H_id` of the live
\* documents, H being the document's `deps` pointer: every live id has its
\* one marker, none under another hash, and no marker names a dead id.
C4_MarkersMatchDocuments ==
    MarkersIn(tree) = {marker_key(DepsOf(id), id) : id \in LiveIds}

\* an update has just succeeded on a document whose marker is under its
\* pointer while a second live document is in another group
C4_Witness ==
    /\ last.op = "update_json"
    /\ last.res = Ok
    /\ \E other \in LiveIds : DepsOf(other) # DepsOf(last.id)
    /\ tree_contains_key(tree, marker_key(DepsOf(last.id), last.id))

\* ------------------------------------------------------------------- C5
\* C5: a dependency blob with key H exists if and only if at least one
\* marker key with prefix `H_` exists.
C5_BlobIffMarker ==
    \A h \in AllHashes : tree_contains_key(tree, h) <=> GroupIn(tree, h) # {}

\* ------------------------------------------------------------------- C6
\* C6: right after a successful insert_json(doc), get_json of the returned
\* id succeeds and returns exactly the body and the dependencies of doc.
C6_InsertGetRoundTrip ==
    (last.op = "insert_json" /\ last.res = Ok)
    => LET r == Collection_get_json(tree, last.id) IN
       /\ r.res = Ok
       /\ is_document(from_str(r.out))
       /\ from_str(r.out).m["body"] = docs[last.id].m["body"]
       /\ from_str(r.out).m["dependencies"] = docs[last.id].m["dependencies"]

\* an insert has just returned an id whose dependencies another live
\* document already had, so the blob it reads back was not written by it
C6_Witness ==
    /\ last.op = "insert_json"
    /\ last.res = Ok
    /\ \E other \in LiveIds \ {last.id} : DepsOf(other) = DepsOf(last.id)
    /\ Collection_get_json(tree, last.id).res = Ok

\* ------------------------------------------------------------------- C7
\* C7: right after a successful update_json(id, doc), get_json(id) succeeds
\* and returns exactly the body and the dependencies of doc.
C7_UpdateThenGet ==
    (last.op = "update_json" /\ last.res = Ok)
    => LET r == Collection_get_json(tree, last.id) IN
       /\ r.res = Ok
       /\ is_document(from_str(r.out))
       /\ from_str(r.out).m["body"] = docs[last.id].m["body"]
       /\ from_str(r.out).m["dependencies"] = docs[last.id].m["dependencies"]

\* ------------------------------------------------------------------- C8
\* C8: a document inserted through a Subcollection belongs to it: its
\* marker is filed under the pinned hash, Subcollection.get_json of the
\* returned id returns the body, and Subcollection.get_keys contains the id.
C8_SubInsertBelongs ==
    (last.op = "sub_insert_json" /\ last.res = Ok)
    => /\ tree_contains_key(tree, marker_key(last.sub.dependencies_hash, last.id))
       /\ Subcollection_get_json(tree, last.sub, last.id)
            = [res |-> Ok, out |-> to_string(docs[last.id].m["body"])]
       /\ \E i \in DOMAIN Subcollection_get_keys(tree, last.sub) :
             Subcollection_get_keys(tree, last.sub)[i] = last.id

\* ------------------------------------------------------------------- C9
\* C9: for a Subcollection pinned to D1 and an id whose document belongs
\* only to another group, Subcollection get_json, update_json and
\* delete_json fail with NotFound and leave the tree as it was, while
\* Collection.get_json of that id succeeds.
BelongsOnlyElsewhere(t, sub, id) ==
    /\ id \in IdPool
    /\ tree_contains_key(t, id)
    /\ ~tree_contains_key(t, marker_key(sub.dependencies_hash, id))
    /\ \E h \in AllHashes \ {sub.dependencies_hash} : tree_contains_key(t, marker_key(h, id))

C9_Step ==
    ( /\ last'.op \in {"sub_get_json", "sub_update_json", "sub_delete_json"}
      /\ BelongsOnlyElsewhere(tree, last'.sub, last'.id) )
    => /\ last'.res = NotFound
       /\ tree' = tree
       /\ Collection_get_json(tree', last'.id).res = Ok

C9_MembershipIsolation == [][C9_Step]_vars

\* ------------------------------------------------------------------ C10
\* C10: for every pinned hash H, Subcollection.get_keys returns each id of
\* a live document whose `deps` pointer is H exactly once, and nothing else.
SubcollectionOf(text) ==
    [dependencies |-> from_str(text), dependencies_hash |-> get_json_hash(text)]

C10_GetKeysAreMembers ==
    \A text \in DepTexts :
        LET sub == SubcollectionOf(text)
            keys == Subcollection_get_keys(tree, sub)
        IN /\ \A i, j \in DOMAIN keys : keys[i] = keys[j] => i = j
           /\ {keys[i] : i \in DOMAIN keys}
                = {id \in LiveIds : DepsOf(id) = sub.dependencies_hash}

\* get_keys has just listed a member of its group while a document that
\* an update moved to another group, and so is not listed, is live
C10_Witness ==
    /\ last.op = "sub_get_keys"
    /\ last.out # <<>>
    /\ \E id \in LiveIds :
          /\ DepsOf(id) # last.sub.dependencies_hash
          /\ docs[id].m["dependencies"] # last.sub.dependencies
          /\ \A i \in DOMAIN last.out : last.out[i] # id

\* ------------------------------------------------------------------ C11
\* C11: for every Subcollection handle pinned to D, every id that belongs
\* to it and every body text b, Subcollection.update_json(id, b) returns
\* the same result, SchemaValidationError included, and leaves the same
\* tree as Collection.update_json(id, {body: b, dependencies: D}).
C11_SubUpdateIsCollectionUpdate ==
    \A sub \in subs, id \in IdPool, b \in AnyBodyTexts \ {Malformed} :
        check_belongs_to_subcollection(tree, sub, id) = Ok
        => LET s == Subcollection_update_json(tree, sub, id, b, "ok")
               c == Collection_update_json(tree, id,
                        to_string(Document(from_str(b), sub.dependencies)), "ok")
           IN /\ s.res = c.res
              /\ s.tree = c.tree

\* ------------------------------------------------------------------ C12
\* C12: a Collection insert_json, update_json or delete_json that returns
\* an error (DeserializationError, SchemaValidationError, NotFound, or
\* DatabaseError from id exhaustion, a failed transaction or a failed
\* flush) leaves every key and every value of the tree as before the call.
C12_Step ==
    (last'.op \in {"insert_json", "update_json", "delete_json"} /\ last'.res # Ok)
    => tree' = tree

C12_FailedCallWritesNothing == [][C12_Step]_vars

\* ------------------------------------------------------------------ C13
\* C13: once delete_json(id) has committed, no update_json(id) that
\* overlaps it makes a record under key id exist again: the transaction of
\* an update never turns an absent key id into a record.
C13_Step ==
    \A p \in Threads :
        (th[p].pc = "update_tx" /\ th'[p].pc = "idle" /\ ~tree_contains_key(tree, th[p].id))
        => ~tree_contains_key(tree', th[p].id)

C13_UpdateNeverRevives == [][C13_Step]_vars

\* ------------------------------------------------------------------ C14
\* C14: while delete_json of a document of group H overlaps an insert_json
\* or update_json that places a document into H, no state is reached in
\* which a live document has its marker `H_id` and the blob at H is absent.
C14_LiveMarkerHasBlob ==
    \A h \in AllHashes, id \in LiveIds :
        tree_contains_key(tree, marker_key(h, id)) => tree_contains_key(tree, h)

\* ------------------------------------------------------------------ C15
\* C15: the id a successful insert_json returns is not the key of any
\* record at the moment the transaction of the insert commits, also when
\* two overlapping insert_json calls have drawn the same token.
C15_Step ==
    \A p \in Threads :
        (th[p].pc = "insert_tx" /\ th'[p].pc = "idle")
        => ~tree_contains_key(tree, th[p].id)

C15_InsertNeverOverwrites == [][C15_Step]_vars

\* ------------------------------------------------------------------ C16
\* C16: get_json, update_json and delete_json called with an id that has
\* no record return NotFound and leave the tree as it was, and right after
\* a successful delete_json(id), get_json(id) returns NotFound.
C16_Step ==
    /\ ( /\ last'.op \in {"get_json", "update_json", "delete_json"}
         /\ ~tree_contains_key(tree, last'.id) )
       => (last'.res = NotFound /\ tree' = tree)
    /\ (last'.op = "delete_json" /\ last'.res = Ok)
       => Collection_get_json(tree', last'.id) = [res |-> NotFound]
    /\ (last.op = "delete_json" /\ last.res = Ok /\ last'.op = "get_json" /\ last'.id = last.id)
       => last'.res = NotFound

C16_AbsentIdIsNotFound == [][C16_Step]_vars

\* delete_json has just removed one of two documents: get_json of its id
\* finds no record while the other document is still live
C16_Witness ==
    /\ last.op = "delete_json"
    /\ last.res = Ok
    /\ ~tree_contains_key(tree, last.id)
    /\ LiveIds # {}
    /\ Collection_get_json(tree, last.id) = [res |-> NotFound]

\* ------------------------------------------------------------------ C17
\* C17: insert_json and update_json accept a text only if it parses to an
\* object with exactly the keys `body` and `dependencies`; every other
\* text (malformed, a non-object, a missing key, an extra key) fails with
\* DeserializationError, no id is generated and nothing is written.
C17_OnlyDocumentsAccepted ==
    \A json \in AnyDocTexts, id \in IdArgs, g \in generate_unique_id(tree), io \in IoOutcomes :
        LET i == Collection_insert_json(tree, json, g, io)
            u == Collection_update_json(tree, id, json, io)
        IN /\ (i.res = Ok \/ u.res = Ok) => (parses(json) /\ is_document(from_str(json)))
           /\ json \in NonDocTexts
              => /\ i = Fail(tree, DeserializationError)
                 /\ u = Fail(tree, DeserializationError)

\* C17, amended: as above for insert_json, and for update_json of an id
\* that has a record; update_json of an id without a record fails with
\* NotFound whatever the text is, and writes nothing.
C17_OnlyDocumentsAcceptedOnRecords ==
    \A json \in AnyDocTexts, id \in IdArgs, g \in generate_unique_id(tree), io \in IoOutcomes :
        LET i == Collection_insert_json(tree, json, g, io)
            u == Collection_update_json(tree, id, json, io)
        IN /\ (i.res = Ok \/ u.res = Ok) => (parses(json) /\ is_document(from_str(json)))
           /\ json \in NonDocTexts
              => /\ i = Fail(tree, DeserializationError)
                 /\ u = Fail(tree, IF tree_contains_key(tree, id)
                                   THEN DeserializationError
                                   ELSE NotFound)

\* update_json has just refused a text for a live document, and insert_json
\* refuses every text that is no document in this state
C17_Witness ==
    /\ last.op = "update_json"
    /\ last.res = DeserializationError
    /\ tree_contains_key(tree, last.id)
    /\ \A json \in NonDocTexts, g \in generate_unique_id(tree) :
          Collection_insert_json(tree, json, g, "ok").res = DeserializationError

\* ------------------------------------------------------------------ C18
\* C18: in a collection with schemas, insert_json and update_json succeed
\* only if the body conforms to the body schema and the dependencies to the
\* dependencies schema; when either does not conform the call fails with
\* SchemaValidationError before any write, so the document an update
\* targets keeps its previous body and dependencies.
Conforms(value) ==
    /\ is_valid(from_str(metadata.body_schema.v.schema_json), value.m["body"])
    /\ is_valid(from_str(metadata.dependencies_schema.v.schema_json), value.m["dependencies"])

C18_SchemaGate ==
    \A json \in StrDocTexts, id \in IdArgs, g \in generate_unique_id(tree), io \in IoOutcomes :
        LET i == Collection_insert_json(tree, json, g, io)
            u == Collection_update_json(tree, id, json, io)
        IN /\ (i.res = Ok \/ u.res = Ok) => Conforms(from_str(json))
           /\ ~Conforms(from_str(json))
              => /\ i = Fail(tree, SchemaValidationError)
                 /\ u = Fail(tree, SchemaValidationError)

\* C18, amended: as above for insert_json, and for update_json of an id
\* that has a record; update_json of an id without a record fails with
\* NotFound before the document is looked at.
C18_SchemaGateOnRecords ==
    \A json \in StrDocTexts, id \in IdArgs, g \in generate_unique_id(tree), io \in IoOutcomes :
        LET i == Collection_insert_json(tree, json, g, io)
            u == Collection_update_json(tree, id, json, io)
        IN /\ (i.res = Ok \/ u.res = Ok) => Conforms(from_str(json))
           /\ ~Conforms(from_str(json))
              => /\ i = Fail(tree, SchemaValidationError)
                 /\ u = Fail(tree, IF tree_contains_key(tree, id)
                                   THEN SchemaValidationError
                                   ELSE NotFound)

\* update_json has just refused a document for a live id, whose record
\* still reads back as the document accepted before
C18_Witness ==
    /\ last.op = "update_json"
    /\ last.res = SchemaValidationError
    /\ tree_contains_key(tree, last.id)
    /\ Collection_get_json(tree, last.id) = [res |-> Ok, out |-> to_string(docs[last.id])]

\* ------------------------------------------------------------------ C19
\* C19: update_json(id, doc) where the body of doc equals the stored body
\* and the hash of doc's dependencies equals the stored `deps` pointer
\* returns success and writes nothing: the record, every marker and every
\* blob keep their values.
C19_NoOpUpdate ==
    \A id \in LiveIds, json \in DocTexts \cup StrDocTexts, io \in IoOutcomes :
        ( /\ from_str(json).m["body"] = from_str(tree[id]).m["body"]
          /\ get_json_hash(to_string(from_str(json).m["dependencies"])) = DepsOf(id) )
        => Collection_update_json(tree, id, json, io) = [res |-> Ok, tree |-> tree, id |-> id]

\* ------------------------------------------------------------------ C20
\* C20: an update_json that changes the dependencies of a document from
\* hash H_old to H_new does not remove the blob at H_old, also when the
\* document was the only member of group H_old; a blob leaves the tree
\* only in a step of delete_json.
C20_Step ==
    /\ last'.op = "update_json"
       => \A h \in AllHashes :
             tree_contains_key(tree, h) => (tree_contains_key(tree', h) /\ tree'[h] = tree[h])
    /\ \A h \in AllHashes :
          (tree_contains_key(tree, h) /\ ~tree_contains_key(tree', h))
          => last'.op \in {"delete_json", "sub_delete_json"}

C20_OnlyDeleteRemovesBlobs == [][C20_Step]_vars

\* an update has just succeeded on the only live document, and a blob of
\* another group, which no marker refers to, is still in the tree
C20_Witness ==
    /\ last.op = "update_json"
    /\ last.res = Ok
    /\ LiveIds = {last.id}
    /\ \E h \in AllHashes \ {DepsOf(last.id)} :
          tree_contains_key(tree, h) /\ GroupIn(tree, h) = {}

C22_CreateExistingFails ==
    \A name \in tree_names(db.trees), now \in Times, io \in IoOutcomes :
        /\ Database_create_collection(db.trees, name, now, io)
              = DbResult(AlreadyExists, db.trees, NoMetadata, FALSE)
        /\ \A body_schema_json \in SchemaTexts("a"), deps_schema_json \in SchemaTexts("k") :
              Database_create_collection_with_schema_json(db.trees, name, body_schema_json, deps_schema_json, now, io)
                 = DbResult(AlreadyExists, db.trees, NoMetadata, FALSE)

\* a creation has just failed with AlreadyExists on a collection that holds
\* its metadata record and a document
C22_Witness ==
    /\ last.op \in {"create_collection", "create_collection_with_schema_json"}
    /\ last.res = AlreadyExists
    /\ tree_contains_key(db.trees[last.name], METADATA_KEY)
    /\ \E id \in IdPool : tree_contains_key(db.trees[last.name], id)

\* ------------------------------------------------------------------ C23
\* a schema text that parses and is no draft-7 schema
not_a_schema(schema_json) == parses(schema_json) /\ ~compiles(from_str(schema_json))

\* the call left no namespace of that name
NoNamespace(ts, name) ==
    /\ ~Database_collection_exists(ts, name)
    /\ Database_get_collection(ts, name).res = NotFound

\* C23 (as claimed): create_collection_with_schema_json fails with
\* DeserializationError when either schema text is malformed JSON and with
\* SchemaCompilationError when either is not a valid draft-7 schema, and in
\* both cases collection_exists(name) is false and get_collection(name) is
\* NotFound afterwards.
C23_SchemaErrorsBeforeWrite ==
    \A name \in Names, body_schema_json \in SchemaTexts("a"), deps_schema_json \in SchemaTexts("k"), now \in Times, io \in IoOutcomes :
        LET r == Database_create_collection_with_schema_json(db.trees, name, body_schema_json, deps_schema_json, now, io)
        IN /\ (~parses(body_schema_json) \/ ~parses(deps_schema_json))
              => (r.res = DeserializationError /\ NoNamespace(r.trees, name))
           /\ (not_a_schema(body_schema_json) \/ not_a_schema(deps_schema_json))
              => (r.res = SchemaCompilationError /\ NoNamespace(r.trees, name))

\* C23 (amended): for a name no collection has, the call fails with
\* DeserializationError when either schema text is malformed JSON, and
\* otherwise with SchemaCompilationError when either is not a valid draft-7
\* schema; in both cases nothing is written and no namespace is created, so
\* collection_exists(name) is false and get_collection(name) is NotFound
\* afterwards.
C23_SchemaErrorsBeforeWriteOnNewName ==
    \A name \in Names \ tree_names(db.trees), body_schema_json \in SchemaTexts("a"), deps_schema_json \in SchemaTexts("k"), now \in Times, io \in IoOutcomes :
        LET r == Database_create_collection_with_schema_json(db.trees, name, body_schema_json, deps_schema_json, now, io)
            malformed == ~parses(body_schema_json) \/ ~parses(deps_schema_json)
        IN /\ malformed
              => (r.res = DeserializationError /\ r.trees = db.trees /\ NoNamespace(r.trees, name))
           /\ (~malformed /\ (not_a_schema(body_schema_json) \/ not_a_schema(deps_schema_json)))
              => (r.res = SchemaCompilationError /\ r.trees = db.trees /\ NoNamespace(r.trees, name))

\* a creation with schemas has just failed on a schema text, and no
\* collection of that name exists
C23_Witness ==
    /\ last.op = "create_collection_with_schema_json"
    /\ last.res \in {DeserializationError, SchemaCompilationError}
    /\ NoNamespace(db.trees, last.name)

\* ------------------------------------------------------------------ C24
\* the document conforms to the two schemas of a CollectionMetadata
ConformsTo(md, value) ==
    /\ is_valid(from_str(md.body_schema.v.schema_json), value.m["body"])
    /\ is_valid(from_str(md.dependencies_schema.v.schema_json), value.m["dependencies"])

\* C24: the handle held on a collection created with schemas, whether it is
\* the one creation returned or one get_collection returned later (also
\* after the Database was closed and opened again), carries the metadata of
\* the handle returned at creation: the same schema texts, both compiled.
\* It applies the same gate: insert_json never fails with SchemaError and
\* rejects with SchemaValidationError exactly the documents that do not
\* conform to the schemas given at creation, and so does update_json on a
\* live document.
C24_SchemaPersistence ==
    (db.held \in DOMAIN db.made /\ db.made[db.held].body_schema.some)
    => LET created == db.made[db.held]
           t == db.trees[db.held]
       IN /\ metadata = created
          /\ metadata.body_schema.v.schema_json = created.body_schema.v.schema_json
          /\ metadata.dependencies_schema.v.schema_json = created.dependencies_schema.v.schema_json
          /\ \A json \in StrDocTexts :
                /\ \A g \in generate_unique_id(t) :
                      LET i == Collection_insert_json(t, json, g, "ok")
                      IN /\ i.res # SchemaError
                         /\ i.res = SchemaValidationError <=> ~ConformsTo(created, from_str(json))
                /\ \A id \in IdArgs :
                      LET u == Collection_update_json(t, id, json, "ok")
                      IN /\ u.res # SchemaError
                         /\ tree_contains_key(t, id)
                            => (u.res = SchemaValidationError <=> ~ConformsTo(created, from_str(json)))

\* get_collection has just returned a handle on a collection that was
\* created with schemas and holds a document
C24_Witness ==
    /\ last.op = "get_collection"
    /\ last.res = Ok
    /\ db.held \in DOMAIN db.made
    /\ metadata.body_schema.some
    /\ \E id \in IdPool : tree_contains_key(db.trees[db.held], id)

MutatingCalls == {"create_collection", "create_collection_with_schema_json", "drop_collection", "insert_json", "update_json", "delete_json"}

\* C26: when a mutating call that wrote returns success, everything it
\* wrote is durable: the call flushed after its last write, so what is on
\* disk is what the trees hold.
C26_Step ==
    (last'.op \in MutatingCalls /\ last'.res = Ok /\ db'.trees # db.trees) => db'.disk = db'.trees

C26_SuccessMeansFlushed == [][C26_Step]_vars

\* ------------------------------------------------------------------ C28
\* the status the claim gives to each error
ClaimedStatus(err) ==
    IF err = NotFound THEN 404
    ELSE IF err = AlreadyExists THEN 409
    ELSE IF err = DatabaseError THEN 500
    ELSE 400

C27_MetadataUntouched ==
    /\ tree_contains_key(tree, METADATA_KEY)
    /\ tree[METADATA_KEY] = metadata_json

\* delete_json has just succeeded on the key of a blob whose value has a
\* `deps` field naming the metadata key
C27_Witness ==
    /\ last.op = "delete_json"
    /\ last.res = Ok
    /\ last.id = get_json_hash(to_string(TrapDeps))

\* ------------------------------------------------------------------ C29
\* C29: while overlapping calls target pairwise different document ids,
\* every state of the tree, those between the steps of calls in progress
\* included, shows each document record with exactly one marker, filed
\* under the hash of the record's `deps` pointer, and no marker without its
\* record: the keys one call writes appear together.
C29_AtomicWritesKeepMarkers ==
    /\ \A id \in LiveIds :
          {k \in MarkersIn(tree) : marker_id(k) = id} = {marker_key(DepsOf(id), id)}
    /\ \A k \in MarkersIn(tree) : marker_id(k) \in LiveIds

\* an update that moves a document to another group and a delete or an
\* insert on another document have both reached their transaction, after a
\* call has already returned
C29_Witness ==
    \E p \in Threads, q \in Threads :
        /\ th[p].pc = "update_tx"
        /\ th[p].deps_changed
        /\ th[q].pc \in {"insert_tx", "delete_tx"}
        /\ th[p].id # th[q].id
        /\ th[p].calls + th[q].calls > 0

\* ------------------------------------------------------------------ C30
\* the markers of the document id in tree t are the one under its pointer
OneMarkerIn(t, id) ==
    /\ tree_contains_key(t, id)
    /\ {k \in MarkersIn(t) : marker_id(k) = id} = {marker_key(DepsIn(t, id), id)}

\* C30: when an update_json that changes the dependencies commits on a
\* document that has exactly one marker, under its pointer, and with that
\* every call has returned, the document again has exactly one marker, the
\* one under the hash of its `deps` pointer, and none under another hash;
\* in particular after two overlapping updates of the same id to two
\* different new groups.
C30_Step ==
    \A p \in Threads :
        (/\ th[p].pc = "update_tx"
         /\ th[p].deps_changed
         /\ OneMarkerIn(tree, th[p].id)
         /\ \A q \in Threads : th'[q].pc = "idle")
        => OneMarkerIn(tree', th[p].id)

C30_OverlappingUpdatesLeaveOneMarker == [][C30_Step]_vars

\* ------------------------------------------------------------------ C31
\* C31: generate_unique_id ends after at most 10 draws.  An attempt that
\* goes on has drawn a key of the namespace and has written nothing; the
\* token returned is the first one drawn that is no key of the namespace;
\* the loop fails with DatabaseError exactly when the tenth draw collides
\* too, and insert_json then fails with that error and has written nothing;
\* the outcome is one generate_unique_id has for the tree; get_json,
\* update_json and delete_json draw no token.
C31_Step ==
    /\ th[1].pc = "draw" =>
          /\ th[1].attempt < 10
          /\ th[1].attempt > 0 => tree_contains_key(tree, th[1].id)
    /\ (th[1].pc = "draw" /\ th'[1].pc = "draw") =>
          /\ th'[1].attempt = th[1].attempt + 1
          /\ tree_contains_key(tree, th'[1].id)
          /\ tree' = tree
    /\ (th[1].pc = "draw" /\ th'[1].pc = "idle") =>
          /\ last'.op = "insert_json"
          /\ th'[1].draws = th[1].attempt + 1
          /\ th'[1].draws <= 10
          /\ [res |-> last'.res, id |-> last'.id] \in generate_unique_id(tree)
          /\ \/ /\ last'.res = Ok
                /\ ~tree_contains_key(tree, last'.id)
                /\ tree_contains_key(tree', last'.id)
             \/ /\ last'.res = DatabaseError
                /\ th'[1].draws = 10
                /\ tree' = tree
    /\ (th[1].pc = "idle" /\ last'.op \in {"get_json", "update_json", "delete_json"}) =>
          th'[1] = th[1]

C31_BoundedDraws == [][C31_Step]_vars

C31_Witness ==
    /\ th[1].pc = "idle"
    /\ "draws" \in DOMAIN th[1]
    /\ th[1].draws = 10
    /\ last.op = "insert_json"
    /\ last.res = DatabaseError
    /\ \E id \in IdPool : ~tree_contains_key(tree, id)

\* ------------------------------------------------------------------ C32
\* the keys other than h are the same in t and u, with the same values
SameButAt(t, u, h) ==
    /\ DOMAIN t \ {h} = DOMAIN u \ {h}
    /\ \A k \in DOMAIN t \ {h} : u[k] = t[k]

\* C32: subcollection_json is idempotent and only adds the blob at its own
\* hash.  A second call with the same text changes nothing and returns the
\* same handle; the write of a call leaves every key but the hash of its
\* text as it was (so no document record and no marker is created, changed
\* or removed), stores the text there, and changes nothing when a blob is
\* already there, also when another call with the same text wrote it in
\* between.
C32_Step ==
    /\ \A text \in DepTexts :
          LET once == Collection_subcollection_json(tree, text, "ok")
              twice == Collection_subcollection_json(once.tree, text, "ok")
          IN /\ twice = once
             /\ SameButAt(tree, once.tree, get_json_hash(text))
             /\ tree_contains_key(tree, get_json_hash(text)) => once.tree = tree
             /\ once.tree[get_json_hash(text)] = text
    /\ \A p \in Threads :
          (th[p].pc = "sub_insert" /\ th'[p].pc = "idle") =>
              /\ SameButAt(tree, tree', th[p].dependencies_hash)
              /\ tree'[th[p].dependencies_hash] = th[p].dependencies_json
              /\ tree_contains_key(tree, th[p].dependencies_hash) => tree' = tree

C32_SubcollectionIdempotent == [][C32_Step]_vars

\* a call is past the test for the blob, and a call with the same text (only
\* subcollection_json stores a text with whitespace) has written the blob
\* since; documents are stored
C32_Witness ==
    /\ th[1].pc = "sub_insert"
    /\ th[1].dependencies_json.lay = "spaced"
    /\ tree_contains_key(tree, th[1].dependencies_hash)
    /\ th[2].pc = "idle"
    /\ LiveIds # {}

\* ------------------------------------------------------------------ C33
\* C33: a successful insert_json (through the Collection or a Subcollection)
\* adds the record under a key that was free, adds the marker of that
\* record, adds the blob under the record's `deps` pointer exactly when no
\* blob was there, and writes no other key: every key the namespace had
\* before (records, markers, blobs, the shared blob included) keeps its
\* value.  A failed one writes nothing.
C33_Step ==
    last'.op \in {"insert_json", "sub_insert_json"} =>
        IF last'.res # Ok THEN tree' = tree
        ELSE LET id == last'.id
                 h == DepsIn(tree', id)
             IN /\ ~tree_contains_key(tree, id)
                /\ ~tree_contains_key(tree, marker_key(h, id))
                /\ DOMAIN tree' = DOMAIN tree \cup {id, marker_key(h, id), h}
                /\ \A k \in DOMAIN tree : tree'[k] = tree[k]
                /\ Cardinality(DOMAIN tree' \ DOMAIN tree) = IF tree_contains_key(tree, h) THEN 2 ELSE 3

C33_InsertWritesThreeKeys == [][C33_Step]_vars

\* an insert has just joined a document that already pointed to the blob
C33_Witness ==
    /\ last.op \in {"insert_json", "sub_insert_json"}
    /\ last.res = Ok
    /\ last.id \in LiveIds
    /\ \E other \in LiveIds \ {last.id} : DepsOf(other) = DepsOf(last.id)

\* ------------------------------------------------------------------ C34
\* C34: a successful update_json (of the Collection or of a Subcollection)
\* on a stored document, with dependencies whose hash is the record's
\* `deps` pointer, changes no key but the record: the record holds the new
\* body and the same pointer, every marker and every blob is as before, and
\* the document is a member of exactly the Subcollections it was a member of.
C34_Step ==
    (/\ last'.op \in {"update_json", "sub_update_json"}
     /\ last'.res = Ok
     /\ tree_contains_key(tree, last'.id)
     /\ get_json_hash(to_string(docs'[last'.id].m["dependencies"])) = DepsIn(tree, last'.id))
    => LET id == last'.id IN
       /\ SameButAt(tree, tree', id)
       /\ tree_contains_key(tree', id)
       /\ DepsIn(tree', id) = DepsIn(tree, id)
       /\ from_str(tree'[id]).m["body"] = docs'[id].m["body"]
       /\ \A text \in DepTexts :
             LET sub == Collection_subcollection_json(tree, text, "ok").sub IN
             check_belongs_to_subcollection(tree', sub, id) = check_belongs_to_subcollection(tree, sub, id)

C34_BodyOnlyUpdate == [][C34_Step]_vars

\* an update has returned for a document that shares its blob with another
\* document holding another body
C34_Witness ==
    /\ last.op \in {"update_json", "sub_update_json"}
    /\ last.res = Ok
    /\ last.id \in LiveIds
    /\ from_str(tree[last.id]).m["body"] = docs[last.id].m["body"]
    /\ \E other \in LiveIds \ {last.id} :
          /\ DepsOf(other) = DepsOf(last.id)
          /\ tree[other] # tree[last.id]
    /\ check_belongs_to_subcollection(tree, [dependencies_hash |-> DepsOf(last.id)], last.id) = Ok

\* ------------------------------------------------------------------ C35
\* every body stored in a record of tree t passes validate_body and every
\* dependency blob of t passes validate_dependencies
StoredDataConforms(t) ==
    \A k \in DOMAIN t :
        (k # METADATA_KEY /\ parses(t[k])) =>
            IF k \in IdPool
            THEN validate_body(from_str(t[k]).m["body"]) = Ok
            ELSE validate_dependencies(from_str(t[k])) = Ok

\* C35: in a collection created with schemas, a successful call through the
\* Collection or a Subcollection, made when every stored body conforms to
\* the body schema and every stored blob to the dependencies schema, leaves
\* every stored body and every stored blob conforming.
C35_Step ==
    (last'.res = Ok /\ StoredDataConforms(tree)) => StoredDataConforms(tree')

C35_StoredDataConforms == [][C35_Step]_vars

\* ------------------------------------------------------------------ C36
\* C36: update_json and delete_json called with an id that is the key of a
\* dependency blob, of a marker or of the metadata record (any key of the
\* namespace that is no document record) fail and leave every key of the
\* namespace with its value.
C36_OnlyRecordsAreTargets ==
    \A id \in DOMAIN tree \ IdPool :
        /\ \A json \in KeyDocTexts :
              LET u == Collection_update_json(tree, id, json, "ok")
              IN u.res # Ok /\ u.tree = tree
        /\ LET d == Collection_delete_json(tree, id, "ok")
           IN d.res # Ok /\ d.tree = tree

\* ------------------------------------------------------------------ C37
\* thread p has returned from a creation call for the name with success
HasCreated(p, name) ==
    /\ th[p].pc = "idle"
    /\ "res" \in DOMAIN th[p]
    /\ th[p].res = Ok
    /\ th[p].name = name

\* C37: of the creation calls for one name (no collection is dropped) at
\* most one returns success, also when they overlap; a thread that returns
\* after another thread's success for the name returns AlreadyExists, and
\* the metadata record of the collection is the one the successful call
\* wrote.
C37_OneCreationWins ==
    \A name \in Names, p \in Threads :
        HasCreated(p, name) =>
            /\ db.trees[name][METADATA_KEY] = serialize_metadata(th[p].metadata)
            /\ \A q \in Threads \ {p} :
                  (th[q].pc = "idle" /\ "res" \in DOMAIN th[q] /\ th[q].name = name)
                  => th[q].res = AlreadyExists

\* ------------------------------------------------------------------ C38
\* the record under id in tree t points to a hash that has no blob
Dangling(t, id) == tree_contains_key(t, id) /\ ~tree_contains_key(t, DepsIn(t, id))

\* C38: get_json of a document record whose `deps` pointer names a hash
\* without a blob fails with DeserializationError, returns no document, and
\* leaves every key of the namespace as it was.
C38_Step ==
    /\ \A id \in IdArgs :
          Dangling(tree, id) => Collection_get_json(tree, id) = [res |-> DeserializationError]
    /\ (last'.op = "get_json" /\ Dangling(tree, last'.id)) =>
          /\ last'.res = DeserializationError
          /\ last'.out = NoOut
          /\ tree' = tree

C38_MissingBlobIsDeserializationError == [][C38_Step]_vars

\* get_json has just answered for a record whose blob is gone
C38_Witness ==
    /\ last.op = "get_json"
    /\ last.res = DeserializationError
    /\ Dangling(tree, last.id)

====
